---- MODULE Spec2Model ----
(***************************************************************************)
(* Position exit engine (TakeProfitManager) and PnL tracker of the copy    *)
(* trading bot.                                                            *)
(*                                                                         *)
(* Units.  Prices are integers in units of 0.0001 USDC; every price the    *)
(* market reports is a whole cent (a multiple of 100), so the products    *)
(* with 0.98, 1.03, 0.95, ... the code forms are exact integers.  Percent  *)
(* comparisons are cross-multiplied, so the model computes in exact        *)
(* arithmetic what the code computes in IEEE doubles.  Sizes are in units  *)
(* of 0.01 share.  Time is in units of 15 s.                               *)
(***************************************************************************)
EXTENDS Integers, Sequences, FiniteSets, TLC

\* ------------------------------------------------------------- bounds
\* The clock starts here (Date.now() is far from the timestamp 0 that
\* means "never") and stops advancing at StartTime + MaxTicks.
StartTime == 1000
MaxTicks == 3
\* updateAttempts is not bounded by the code; the model stops counting here.
MaxAttempts == 7
\* emergencyFailedCount is not bounded by the code either.
MaxEmergencyFails == 2
MaxUpdates == 4

\* ------------------------------------------------ program constants
MAX_UPDATE_ATTEMPTS == 5
SPORTS_TRAILING_STOP == 25
\* this.updateThreshold = 5
UpdateThreshold == 5
\* 30000 ms, the reposition rate limit and the periodic save interval
RateLimitWindow == 2
SaveInterval == 2
\* retryIntervals = [60000, 300000, 900000, 1800000] ms
retryIntervals == <<4, 20, 60, 120>>
\* 0.99 and 0.01, the prices of a resolved market
ResolvedHigh == 9900
ResolvedLow == 100
\* size > 0.01
MinSize == 1
WinThreshold == 10000

\* ------------------------------------------------------ input domains
Tokens == {"t1"}
Slugs == {"nba-finals", "fed-rate"}
\* SPORTS_PREFIXES: the slugs of Slugs that start with one of the prefixes
SportsSlugs == {"nba-finals"}
\* prices the data API reports; 0 is a missing curPrice
MarketPrices == {0, 4800, 5000, 6000, 7000, 9900}
AvgPrices == {5000, 5500}
Sizes == {1, 1000}
\* best bids the order book reports; 0 is "no bid" (null)
BidPrices == {0, 4900, 5900}
\* outcomes of trader.executeTrade as the engine tells them apart
TradeResults == {"ok", "closed", "nobalance", "rejected", "throwClosed", "throwOther"}
ProfitTriggers == {2, 3, 15}
StopLossPercents == {15}

Null == 0
OrderId == 1
Callers == {"loop", "force"}

\* The wallets the watcher tracks, in the order of this.wallets.
WalletList == <<"w1", "w2">>
Wallets == {"w1", "w2"}
Hashes == {"", "0xa"}
MaxTrades == 4
InitializeLimit == 50

\* The stakes and source wallets of openPosition calls; the parts a position
\* may reach.
Stakes == {5, 8}
SourceWallets == {"", "w1", "w2"}
MaxParts == 3
MaxTotalStake == 30

\* The sell orders of one instrument counted at the exchange.
MaxOpenOrders == 3
PollLimit == 20

\* an optional field that is not set (undefined)
Unset == -1
\* config.max_buys_per_token || 3
DefaultMaxBuys == 3
\* config.cooldown_minutes || 30, in units of 15 s
DefaultCooldown == 120
\* CONFIG of config.ts; stakes in USDC, the cooldown in units of 15 s
CONFIG ==
  [mode |-> "proportional", fixed_stake |-> Unset, min_stake |-> 5, max_stake |-> 300,
   max_buys_per_token |-> 3, cooldown_minutes |-> 120, skip_sports |-> FALSE,
   profit_take_percent |-> 15, trailing_stop_percent |-> Unset,
   stop_loss_percent |-> 15, stop_loss_enabled |-> TRUE]

\* what "config set" can store: the mode is any string, the stakes any numbers
SizingModes == {"fixed", "proportional", "other"}
FixedStakes == {Unset, 2, 10, 500}
MinStakes == {5, 400}
MaxStakes == {300}
MyBalances == {0, 10, 1000}
\* a TradeEvent as the sizer and the bot read it
Sides == {"BUY", "SELL"}
UsdcAmounts == {100, 1700}
TraderBalances == {Unset, 0, 1000, 3500000}

VARIABLES
  cfg,               \* constructor arguments: profitTrigger, stopLossPercent, stopLossEnabled
  scope,             \* what the venue can do in this run: prices, sizes, the clock's end
  live,              \* the wallet's positions at the venue (data API)
  now,               \* Date.now()
  trackedPositions,  \* TakeProfitManager.trackedPositions
  fileExists,        \* existsSync(STATE_FILE)
  persisted,         \* the positions array of STATE_FILE
  lastSaveTime,      \* TakeProfitManager.lastSaveTime
  isRunning,         \* TakeProfitManager.isRunning
  pc,                \* where the engine's loop is
  positions,         \* the positions fetched by the current cycle
  todo,              \* the positions of the cycle not yet visited
  ev,                \* what the last engine step did (history variable)
  startSnapshot,     \* PnLTracker.startSnapshot
  currentSnapshot,   \* PnLTracker.currentSnapshot
  realizedPnL,       \* PnLTracker.realizedPnL
  winCount,          \* PnLTracker.winCount
  lossCount,         \* PnLTracker.lossCount
  calls,             \* the update() calls in flight: their position and locals
  started,           \* update() calls made so far (history variable)
  closures,          \* per token: times it left currentSnapshot (history variable)
  callbacks,         \* per token: onPositionClosed invocations (history variable)
  lastSeen,          \* per token: its PnL in the last currentSnapshot holding it (history)
  expectedPnL,       \* sum of lastSeen over the detections made (history variable)
  pc2,               \* where the loop of a second start() is
  positions2,        \* the positions fetched by the second loop's current cycle
  todo2,             \* the positions of the second loop's cycle not yet visited
  stopPending,       \* stop() was called and the first loop has not exited (history)
  config,            \* the bot's Config: sizing mode, stakes, buy limit, cooldown
  myBalance,         \* PositionSizer.myBalance
  sizing,            \* the last SizingResult of PositionSizer.calculate and its event
  tokenBuyCount,     \* bot.ts tokenBuyCount; 0 is "no entry"
  tokenCooldown,     \* bot.ts tokenCooldown: when the cooldown ends; 0 is "no entry"
  isPaused,          \* bot.ts isPaused
  proc,              \* the processTradeEvent call in progress: its position and event
  usdc,              \* the wallet's free balance (wallet.getBalance().polymarketBalance)
  buysSince,         \* per token: successful copy BUYs since its last closure (history)
  req,               \* a call made through the retry logic: its attempts and errors
  seenTrades,        \* WalletWatcher.seenTrades
  feed,              \* per wallet: its trades at the data API, newest first
  yielded,           \* the trade events stream() has yielded, in order (history variable)
  atStart,           \* the trades in the feeds when stream() was called (history)
  watchPc,           \* where stream() is, and the wallet it handles next
  executorPositions, \* TradeExecutor.positions
  openOrders         \* per token: the engine's sell orders resting at the exchange

engineVars == <<trackedPositions, fileExists, persisted, lastSaveTime, isRunning, pc,
                positions, todo, ev>>
envVars == <<cfg, scope, live, now>>
trackerVars == <<startSnapshot, currentSnapshot, realizedPnL, winCount, lossCount, calls,
                 started, closures, callbacks, lastSeen, expectedPnL>>
loop2Vars == <<pc2, positions2, todo2>>
botVars == <<config, myBalance, sizing, tokenBuyCount, tokenCooldown, isPaused, proc, usdc,
             buysSince>>
watcherVars == <<seenTrades, feed, yielded, atStart, watchPc>>
sideVars == <<watcherVars, executorPositions, openOrders>>
vars == <<envVars, engineVars, trackerVars, loop2Vars, stopPending, botVars, req, sideVars>>

\* ------------------------------------------------------------ helpers
Min(a, b) == IF a < b THEN a ELSE b
Max(a, b) == IF a > b THEN a ELSE b

\* Tables (Map<string, ...>) are functions on the keys present, built
\* explicitly key by key.
EmptyTab == << >>
RECURSIVE Restrict(_, _)
Restrict(f, S) ==
  IF S = {} THEN EmptyTab
  ELSE LET k == CHOOSE k \in S : TRUE IN (k :> f[k]) @@ Restrict(f, S \ {k})
Remove(tab, t) == Restrict(tab, (DOMAIN tab) \ {t})
Put(tab, t, r) == (t :> r) @@ tab

\* History of the last step: the token visited, whether tracking started,
\* why emergencyExit was called ("none" if it was not), the limit price
\* placeOrUpdateOrder sent (0: none), the price a fill-or-kill sale filled
\* at (0: none), the cascade tier that ended the emergency exit (4: all
\* failed, 5: market closed), whether loadState restored the file, and the
\* types of the orders handed to executeTrade, in order, and which of them
\* failed for a market-closed reason (0: none), and the instruments that
\* cleanupClosedPositions removed. When book is set the step also counts
\* the limit orders it left resting at the exchange (rests) and the orders
\* its cancel requests removed from it (gone), and a cancel request may fail.
NoEvent == [token |-> "", start |-> FALSE, em |-> "none",
            limit |-> 0, sale |-> 0, bid |-> 0, tier |-> 0, loaded |-> FALSE,
            sent |-> << >>, closed |-> 0, cleaned |-> {},
            book |-> FALSE, rests |-> 0, gone |-> 0]

\* The state the engine's handlers thread through: the table, the file and
\* the history record.
Mk(tab, fe, file, e) == [tab |-> tab, fe |-> fe, file |-> file, ev |-> e]

\* ------------------------------------------------- pure computations
\* isSportsMarket: slug.startsWith(one of SPORTS_PREFIXES)
IsSportsMarket(slug) == slug \in SportsSlugs

\* getTrailingStop
GetTrailingStopDefaultOnly(slug) == cfg.stopLossPercent

GetTrailingStop(slug) ==
  IF IsSportsMarket(slug) THEN SPORTS_TRAILING_STOP ELSE cfg.stopLossPercent

\* p.currentPrice || p.avgPrice
EffectivePrice(p) == IF p.currentPrice # 0 THEN p.currentPrice ELSE p.avgPrice

\* profitPercent >= this.profitTrigger, with
\* profitPercent = avgPrice > 0 ? ((currentPrice - avgPrice) / avgPrice) * 100 : 0
ProfitReached(avg, cur, trigger) ==
  IF avg > 0 THEN (cur - avg) * 100 >= trigger * avg ELSE 0 >= trigger

\* pos.currentPrice >= 0.99 || pos.currentPrice <= 0.01
IsResolvedPrice(cur) == cur >= ResolvedHigh \/ cur <= ResolvedLow

\* currentPrice * 0.98
OrderPrice(cur) == (cur * 98) \div 100

\* tracked.entryPrice * 1.03
MinProfitPrice(entry) == (entry * 103) \div 100

\* the price placeOrUpdateOrder sends when it does not go to emergencyExit
FinalPriceNoFloor(entry, cur) == Min(OrderPrice(cur), ResolvedHigh)

FinalPriceFloorOnly(entry, cur) == Min(MinProfitPrice(entry), ResolvedHigh)

FinalPrice(entry, cur) ==
  Min(IF cur >= MinProfitPrice(entry)
        THEN Max(OrderPrice(cur), MinProfitPrice(entry))
        ELSE OrderPrice(cur),
      ResolvedHigh)

\* currentPrice < tracked.entryPrice * 0.98, tested when currentPrice < minProfitPrice
BelowEntry(entry, cur) == cur < MinProfitPrice(entry) /\ cur * 100 < entry * 98

\* priceChange >= this.updateThreshold, priceChange relative to the order price
MovedUp(orderPrice, cur) == (cur - orderPrice) * 100 >= UpdateThreshold * orderPrice

\* currentPrice > tracked.highestPrice
IsNewPeakAnyMove(high, cur) == cur # high

IsNewPeakOrEqual(high, cur) == cur >= high

IsNewPeak(high, cur) == cur > high

\* dropFromPeak >= effectiveTrailingStop
DropTriggered(high, cur, stop) == (high - cur) * 100 >= stop * high

\* profitNow < -1
LossBeyondTolerance(entry, cur) == (cur - entry) * 100 < (0 - 1) * entry

\* currentPrice < tracked.currentOrderPrice * 0.98
BelowOrder(orderPrice, cur) == cur * 100 < orderPrice * 98

\* now - this.lastSaveTime > 30000
SaveDueLate(last) == now - last > SaveInterval + 1

SaveDue(last) == now - last > SaveInterval

\* now - tracked.lastUpdateTime < 30000
TooSoonNever(lastUpdateTime) == FALSE

TooSoon(lastUpdateTime) == now - lastUpdateTime < RateLimitWindow

InBackoffOneMinute(tr) ==
  /\ tr.lastEmergencyAttempt > 0
  /\ now - tr.lastEmergencyAttempt < retryIntervals[1] - 1

\* the exponential backoff test of manageTrackedPosition
InBackoff(tr) ==
  /\ tr.lastEmergencyAttempt > 0
  /\ now - tr.lastEmergencyAttempt
       < retryIntervals[Min(tr.emergencyFailedCount, Len(retryIntervals) - 1) + 1]

\* emergencyExit's three prices; bid = 0 is "no best bid"
AggressivePrice(cur, bid) ==
  Min(IF bid > 0 THEN (bid * 98) \div 100 ELSE (cur * 90) \div 100, (cur * 95) \div 100)
VeryLowPrice(cur, bid) == IF bid > 0 THEN (bid * 95) \div 100 ELSE (cur * 80) \div 100
LastResortPrice(cur, bid) ==
  IF bid > 0 THEN Max((bid * 90) \div 100, ResolvedLow) ELSE (cur * 70) \div 100

\* isMarketClosedError on a result's error / on a thrown error's message
IsMarketClosedResult(r) == r = "closed"
IsMarketClosedThrow(r) == r = "throwClosed"
Throws(r) == r \in {"throwClosed", "throwOther"}

\* ----------------------------------------------------------- handlers
\* Each handler is the set of states it can end in, one per outcome of the
\* external calls it makes.

\* cancelOrder returns true, or false when the request failed; its callers
\* ignore the result
CancelResults(s) == IF s.ev.book THEN BOOLEAN ELSE {TRUE}

\* the exchange after cancelOrder: the order is gone only if the cancel succeeded
CancelOrder(s, ok) == IF s.ev.book /\ ok THEN [s EXCEPT !.ev.gone = @ + 1] ELSE s

\* the exchange after a limit order was accepted
Rested(s) == IF s.ev.book THEN [s EXCEPT !.ev.rests = @ + 1] ELSE s

\* saveState
SaveState(s) == [s EXCEPT !.fe = TRUE, !.file = s.tab]

Delete(s, t) == [s EXCEPT !.tab = Remove(s.tab, t)]

EmergencyFailedUntimed(s, t) ==
  [s EXCEPT !.tab[t].emergencyFailedCount = @ + 1,
            !.ev.tier = 4]

\* the last else branch of emergencyExit and the non-closed branch of its catch
EmergencyFailed(s, t) ==
  [s EXCEPT !.tab[t].emergencyFailedCount = @ + 1,
            !.tab[t].lastEmergencyAttempt = now,
            !.ev.tier = 4]

EmergencyCatchUnsaved(s, t, r) ==
  IF IsMarketClosedThrow(r) THEN [Delete(s, t) EXCEPT !.ev.tier = 5, !.ev.closed = Len(s.ev.sent)]
  ELSE EmergencyFailed(s, t)

\* catch (error) of emergencyExit
EmergencyCatch(s, t, r) ==
  SaveState(IF IsMarketClosedThrow(r) THEN [Delete(s, t) EXCEPT !.ev.tier = 5, !.ev.closed = Len(s.ev.sent)]
            ELSE EmergencyFailed(s, t))

EmergencyTier3ClosedCounted(s0, t, cur) ==
  LET s == [s0 EXCEPT !.ev.sent = Append(@, "GTC")] IN
  { IF Throws(r) THEN EmergencyCatch(s, t, r)
    ELSE IF r = "ok"
      THEN SaveState([s EXCEPT !.tab[t].currentOrderId = OrderId,
                               !.tab[t].currentOrderPrice = LastResortPrice(cur, b),
                               !.ev.tier = 3])
    ELSE SaveState([EmergencyFailed(s, t) EXCEPT
                      !.ev.closed = IF IsMarketClosedResult(r) THEN Len(s.ev.sent) ELSE 0])
    : r \in TradeResults, b \in BidPrices }

\* third tier: the good-till-cancelled last resort order
EmergencyTier3(s0, t, cur) ==
  LET s == [s0 EXCEPT !.ev.sent = Append(@, "GTC")] IN
  { IF Throws(r) THEN EmergencyCatch(s, t, r)
    ELSE IF r = "ok"
      THEN SaveState(Rested([s EXCEPT !.tab[t].currentOrderId = OrderId,
                                      !.tab[t].currentOrderPrice = LastResortPrice(cur, b),
                                      !.ev.tier = 3]))
    ELSE IF IsMarketClosedResult(r)
      THEN SaveState([Delete(s, t) EXCEPT !.ev.tier = 5, !.ev.closed = Len(s.ev.sent)])
    ELSE SaveState(EmergencyFailed(s, t))
    : r \in TradeResults, b \in BidPrices }

\* second tier: fill-or-kill at the deeper discount
EmergencyTier2Skipped(s, t, cur) == EmergencyTier3(s, t, cur)

EmergencyTier2(s0, t, cur) ==
  LET s == [s0 EXCEPT !.ev.sent = Append(@, "FOK")] IN
  UNION { IF Throws(r) THEN {EmergencyCatch(s, t, r)}
          ELSE IF r = "ok"
            THEN {SaveState([Delete(s, t) EXCEPT !.ev.sale = VeryLowPrice(cur, b),
                                                 !.ev.bid = b,
                                                 !.ev.tier = 2])}
          ELSE IF IsMarketClosedResult(r)
            THEN {SaveState([Delete(s, t) EXCEPT !.ev.tier = 5, !.ev.closed = Len(s.ev.sent)])}
          ELSE EmergencyTier3(s, t, cur)
          : r \in TradeResults, b \in BidPrices }

\* emergencyExit; cause is why it was called (history only)
EmergencyExit(s, t, cur, cause) ==
  LET s0 == [s EXCEPT !.ev.em = cause, !.tab[t].emergency = TRUE]
      sc(ok) == IF s0.tab[t].currentOrderId # Null
                  THEN CancelOrder([s0 EXCEPT !.tab[t].currentOrderId = Null], ok)
                  ELSE s0
      s1(ok) == [sc(ok) EXCEPT !.ev.sent = Append(@, "FOK")]
  IN UNION { IF Throws(r) THEN {EmergencyCatch(s1(ok), t, r)}
             ELSE IF r = "ok"
               THEN {SaveState([Delete(s1(ok), t) EXCEPT !.ev.sale = AggressivePrice(cur, b),
                                                         !.ev.bid = b,
                                                         !.ev.tier = 1])}
             ELSE IF IsMarketClosedResult(r)
               THEN {SaveState([Delete(s1(ok), t) EXCEPT !.ev.tier = 5,
                                                         !.ev.closed = Len(s1(ok).ev.sent)])}
             ELSE EmergencyTier2(s1(ok), t, cur)
             : r \in TradeResults, b \in BidPrices, ok \in CancelResults(s) }

\* placeOrUpdateOrder
PlaceOrUpdateOrder(s, t, cur) ==
  LET s1 == [s EXCEPT !.tab[t].lastUpdateTime = now]
      entry == s1.tab[t].entryPrice
      final == FinalPrice(entry, cur)
      s2 == [s1 EXCEPT !.ev.limit = final, !.ev.sent = Append(@, "GTC")]
  IN IF BelowEntry(entry, cur)
       THEN EmergencyExit(s1, t, cur, "belowEntry")
       ELSE { IF r = "ok"
                THEN Rested([s2 EXCEPT !.tab[t].currentOrderId = OrderId,
                                       !.tab[t].currentOrderPrice = final])
              ELSE IF IsMarketClosedResult(r) \/ IsMarketClosedThrow(r)
                THEN SaveState([Delete(s2, t) EXCEPT !.ev.closed = Len(s2.ev.sent)])
              ELSE IF r = "nobalance"
                THEN SaveState(Delete(s2, t))
              ELSE [s2 EXCEPT !.tab[t].updateAttempts = @ + 1]
              : r \in TradeResults }

\* cancelAndReplace; the cancel's own result changes nothing in the table
CancelAndReplace(s, t, cur) ==
  LET s1(ok) == IF s.tab[t].currentOrderId # Null
                  THEN CancelOrder([s EXCEPT !.tab[t].currentOrderId = Null,
                                             !.tab[t].currentOrderPrice = 0], ok)
                  ELSE s
  IN UNION { PlaceOrUpdateOrder(s1(ok), t, cur) : ok \in CancelResults(s) }

\* startTracking; emergency is a history field: emergencyExit has been
\* called on the entry
NewTracked(pos) ==
  [entryPrice |-> pos.avgPrice, size |-> pos.size, highestPrice |-> pos.currentPrice,
   currentOrderId |-> Null, currentOrderPrice |-> 0, marketSlug |-> pos.marketSlug,
   updateAttempts |-> 0, lastUpdateTime |-> 0,
   emergencyFailedCount |-> 0, lastEmergencyAttempt |-> 0,
   emergency |-> FALSE]

StartTrackingSavedLast(s, t, pos) ==
  IF t \in DOMAIN s.tab THEN {s}
  ELSE { SaveState(x) :
         x \in PlaceOrUpdateOrder(
                 [s EXCEPT !.tab = Put(s.tab, t, NewTracked(pos)), !.ev.start = TRUE],
                 t, pos.currentPrice) }

StartTracking(s, t, pos) ==
  IF t \in DOMAIN s.tab THEN {s}
  ELSE PlaceOrUpdateOrder(
         SaveState([s EXCEPT !.tab = Put(s.tab, t, NewTracked(pos)), !.ev.start = TRUE]),
         t, pos.currentPrice)

\* manageTrackedPosition
ManageTrackedPosition(s, t, cur) ==
  LET tr == s.tab[t]
  IN IF IsNewPeak(tr.highestPrice, cur)
       THEN LET s1 == [s EXCEPT !.tab[t].highestPrice = cur, !.tab[t].updateAttempts = 0]
            IN IF /\ tr.currentOrderId # Null
                  /\ tr.currentOrderPrice > 0
                  /\ MovedUp(tr.currentOrderPrice, cur)
                 THEN CancelAndReplace(s1, t, cur)
                 ELSE {s1}
     ELSE IF DropTriggered(tr.highestPrice, cur, GetTrailingStop(tr.marketSlug))
       THEN IF ~cfg.stopLossEnabled THEN {s}
            ELSE IF LossBeyondTolerance(tr.entryPrice, cur) THEN {s}
            ELSE IF InBackoff(tr) THEN {s}
            ELSE EmergencyExit(s, t, cur, "trailing")
     ELSE IF tr.currentOrderId # Null /\ BelowOrder(tr.currentOrderPrice, cur)
       THEN IF TooSoon(tr.lastUpdateTime) THEN {s}
            ELSE LET s1 == [s EXCEPT !.tab[t].updateAttempts = @ + 1]
                 IN IF s1.tab[t].updateAttempts >= MAX_UPDATE_ATTEMPTS
                      THEN EmergencyExit(s1, t, cur, "maxAttempts")
                      ELSE CancelAndReplace(s1, t, cur)
     ELSE {s}

\* the body of the for loop of checkAndManagePositions, for one position
VisitPosition(s, t, pos) ==
  IF IsResolvedPrice(pos.currentPrice) THEN {s}
  ELSE IF t \notin DOMAIN s.tab
    THEN IF ProfitReached(pos.avgPrice, pos.currentPrice, cfg.profitTrigger)
           THEN StartTracking(s, t, pos)
           ELSE {s}
  ELSE ManageTrackedPosition(
         [s EXCEPT !.tab[t].size = pos.size, !.tab[t].entryPrice = pos.avgPrice],
         t, pos.currentPrice)

CleanupClosedPositionsUnsaved(s, current) ==
  LET gone == (DOMAIN s.tab) \ (DOMAIN current)
  IN [s EXCEPT !.tab = Restrict(s.tab, (DOMAIN s.tab) \ gone), !.ev.cleaned = gone]

\* cleanupClosedPositions
CleanupClosedPositions(s, current) ==
  LET gone == (DOMAIN s.tab) \ (DOMAIN current)
      s1 == [s EXCEPT !.tab = Restrict(s.tab, (DOMAIN s.tab) \ gone),
                      !.ev.cleaned = gone]
  IN IF gone # {} THEN SaveState(s1) ELSE s

\* getPositionsWithProfit: the positions with size > 0.01, prices defaulted
GetPositionsWithProfit(raw) ==
  LET held == {x \in DOMAIN raw : raw[x].size > MinSize}
  IN Restrict([t \in held |->
                 [size |-> raw[t].size, avgPrice |-> raw[t].avgPrice,
                  currentPrice |-> EffectivePrice(raw[t]),
                  marketSlug |-> raw[t].marketSlug]], held)

\* loadState's treatment of one saved entry whose position is still held
RestoreEntryStalePeak(saved, real) ==
  [saved EXCEPT !.currentOrderId = Null, !.currentOrderPrice = 0, !.size = real.size]

RestoreEntry(saved, real) ==
  [saved EXCEPT !.highestPrice = IF EffectivePrice(real) > @ THEN EffectivePrice(real) ELSE @,
                !.currentOrderId = Null,
                !.currentOrderPrice = 0,
                !.size = real.size]

\* realTokenIds of loadState
RealTokenIds(raw) == {t \in DOMAIN raw : raw[t].size > MinSize}

\* loadState, when the file is read and the positions are fetched
LoadState(tab, saved, raw) ==
  LET keep == (DOMAIN saved) \cap RealTokenIds(raw)
      all == (DOMAIN tab) \cup keep
  IN Restrict([t \in all |-> IF t \in keep THEN RestoreEntry(saved[t], raw[t]) ELSE tab[t]],
              all)

\* -------------------------------------------------------- environment
\* A cycle reads the venue once, at its fetch, and is short against the
\* time unit: what the venue does during a cycle is what it does right
\* after it, so the environment moves between cycles only.
BetweenCycles == pc \in {"init", "top", "done"} /\ pc2 \in {"init", "top", "done"}

RawPosition(t, size, avg, cur) ==
  [size |-> size, avgPrice |-> avg, currentPrice |-> cur, marketSlug |-> cfg.slug[t]]

\* the wallet acquires a position (a copied BUY fills)
EnvOpen(t) ==
  /\ BetweenCycles
  /\ t \notin DOMAIN live
  /\ \E size \in scope.sizes, avg \in scope.avgs, cur \in scope.prices :
       live' = Put(live, t, RawPosition(t, size, avg, cur))
  /\ ev' = NoEvent
  /\ UNCHANGED <<trackerVars, loop2Vars, stopPending, sideVars, req, botVars>>
  /\ UNCHANGED <<cfg, scope, now, trackedPositions, fileExists, persisted, lastSaveTime,
                 isRunning, pc, positions, todo>>

\* the market moves
EnvPrice(t) ==
  /\ BetweenCycles
  /\ t \in DOMAIN live
  /\ \E cur \in scope.prices \ {live[t].currentPrice} :
       live' = [live EXCEPT ![t].currentPrice = cur]
  /\ ev' = NoEvent
  /\ UNCHANGED <<trackerVars, loop2Vars, stopPending, sideVars, req, botVars>>
  /\ UNCHANGED <<cfg, scope, now, trackedPositions, fileExists, persisted, lastSaveTime,
                 isRunning, pc, positions, todo>>

\* another BUY or a partial SELL changes the size and the average price
EnvTrade(t) ==
  /\ BetweenCycles
  /\ t \in DOMAIN live
  /\ \E size \in scope.sizes, avg \in scope.avgs :
       /\ <<size, avg>> # <<live[t].size, live[t].avgPrice>>
       /\ live' = [live EXCEPT ![t].size = size, ![t].avgPrice = avg]
  /\ ev' = NoEvent
  /\ UNCHANGED <<trackerVars, loop2Vars, stopPending, sideVars, req, botVars>>
  /\ UNCHANGED <<cfg, scope, now, trackedPositions, fileExists, persisted, lastSaveTime,
                 isRunning, pc, positions, todo>>

\* the position is sold out (an order fills, a copied SELL, a redemption)
EnvClose(t) ==
  /\ BetweenCycles
  /\ t \in DOMAIN live
  /\ live' = Remove(live, t)
  /\ ev' = NoEvent
  /\ buysSince' = (t :> 0) @@ buysSince
  /\ UNCHANGED <<config, myBalance, sizing, tokenBuyCount, tokenCooldown, isPaused, proc, usdc>>
  /\ UNCHANGED <<trackerVars, loop2Vars, stopPending, sideVars, req>>
  /\ UNCHANGED <<cfg, scope, now, trackedPositions, fileExists, persisted, lastSaveTime,
                 isRunning, pc, positions, todo>>

\* time passes
Tick ==
  /\ BetweenCycles
  /\ now < StartTime + scope.ticks
  /\ now' = now + 1
  /\ ev' = NoEvent
  /\ UNCHANGED <<trackerVars, loop2Vars, stopPending, sideVars, req, botVars>>
  /\ UNCHANGED <<cfg, scope, live, trackedPositions, fileExists, persisted, lastSaveTime,
                 isRunning, pc, positions, todo>>

\* ------------------------------------------------------------- engine
WithinBounds(tab) ==
  \A t \in DOMAIN tab : /\ tab[t].updateAttempts <= MaxAttempts
                        /\ tab[t].emergencyFailedCount <= MaxEmergencyFails

\* start(): isRunning = true, loadState(), then the loop.  loadState leaves
\* the table alone when there is no file, the file does not parse or the
\* position fetch throws.
Start ==
  /\ pc \in {"init", "done"}
  /\ ~isRunning
  /\ isRunning' = TRUE
  /\ \E ok \in BOOLEAN :
       /\ trackedPositions' = IF fileExists /\ ok
                                THEN LoadState(trackedPositions, persisted, live)
                                ELSE trackedPositions
       /\ ev' = [NoEvent EXCEPT !.loaded = fileExists /\ ok]
  /\ pc' = "top"
  /\ UNCHANGED <<trackerVars, loop2Vars, stopPending, sideVars, req, botVars>>
  /\ UNCHANGED <<cfg, scope, live, now, fileExists, persisted, lastSaveTime, positions,
                 todo>>

\* stop(): isRunning = false, saveState()
Stop ==
  /\ isRunning
  /\ isRunning' = FALSE
  /\ fileExists' = TRUE
  /\ persisted' = trackedPositions
  /\ ev' = NoEvent
  /\ stopPending' = (pc \in {"top", "loop", "save"})
  /\ UNCHANGED <<sideVars, req>>
  /\ UNCHANGED <<trackerVars, loop2Vars, botVars>>
  /\ UNCHANGED <<cfg, scope, live, now, trackedPositions, lastSaveTime, pc, positions,
                 todo>>

\* while (this.isRunning) fails: start() returns
LoopExit ==
  /\ pc = "top"
  /\ ~isRunning
  /\ pc' = "done"
  /\ ev' = NoEvent
  /\ stopPending' = FALSE
  /\ UNCHANGED <<sideVars, req>>
  /\ UNCHANGED <<trackerVars, loop2Vars, botVars>>
  /\ UNCHANGED <<cfg, scope, live, now, trackedPositions, fileExists, persisted,
                 lastSaveTime, isRunning, positions, todo>>

\* checkAndManagePositions: getPositionsWithProfit returns
Fetch ==
  /\ pc = "top"
  /\ isRunning
  /\ positions' = GetPositionsWithProfit(live)
  /\ todo' = DOMAIN positions'
  /\ pc' = "loop"
  /\ ev' = NoEvent
  /\ UNCHANGED <<trackerVars, loop2Vars, stopPending, sideVars, req, botVars>>
  /\ UNCHANGED <<cfg, scope, live, now, trackedPositions, fileExists, persisted,
                 lastSaveTime, isRunning>>

FetchFailsUncaught ==
  /\ pc = "top"
  /\ isRunning
  /\ pc' = "done"
  /\ ev' = NoEvent
  /\ UNCHANGED <<trackerVars, loop2Vars, stopPending, sideVars, req, botVars>>
  /\ UNCHANGED <<cfg, scope, live, now, trackedPositions, fileExists, persisted,
                 lastSaveTime, isRunning, positions, todo>>

\* checkAndManagePositions: getPositionsWithProfit throws, the cycle is skipped
FetchFails ==
  /\ pc = "top"
  /\ isRunning
  /\ pc' = "save"
  /\ ev' = NoEvent
  /\ UNCHANGED <<trackerVars, loop2Vars, stopPending, sideVars, req, botVars>>
  /\ UNCHANGED <<cfg, scope, live, now, trackedPositions, fileExists, persisted,
                 lastSaveTime, isRunning, positions, todo>>

\* one iteration of the for loop
Visit(t) ==
  /\ pc = "loop"
  /\ t \in todo
  /\ \E s \in VisitPosition(Mk(trackedPositions, fileExists, persisted,
                               [NoEvent EXCEPT !.token = t]), t, positions[t]) :
       /\ WithinBounds(s.tab)
       /\ trackedPositions' = s.tab
       /\ fileExists' = s.fe
       /\ persisted' = s.file
       /\ ev' = s.ev
  /\ todo' = todo \ {t}
  /\ UNCHANGED <<trackerVars, loop2Vars, stopPending, sideVars, req, botVars>>
  /\ UNCHANGED <<cfg, scope, live, now, lastSaveTime, isRunning, pc, positions>>

\* the same visit with the exchange's book kept: the orders the step leaves
\* resting are added, the ones it cancelled are taken away
VisitOrders(t) ==
  /\ pc = "loop"
  /\ t \in todo
  /\ \E s \in VisitPosition(Mk(trackedPositions, fileExists, persisted,
                               [NoEvent EXCEPT !.token = t, !.book = TRUE]),
                            t, positions[t]) :
       /\ WithinBounds(s.tab)
       /\ trackedPositions' = s.tab
       /\ fileExists' = s.fe
       /\ persisted' = s.file
       /\ ev' = s.ev
       /\ openOrders' = Put(openOrders, t, openOrders[t] - s.ev.gone + s.ev.rests)
       /\ openOrders'[t] <= MaxOpenOrders
  /\ todo' = todo \ {t}
  /\ UNCHANGED <<trackerVars, loop2Vars, stopPending, watcherVars, executorPositions, req,
                 botVars>>
  /\ UNCHANGED <<cfg, scope, live, now, lastSaveTime, isRunning, pc, positions>>

\* the resting orders of t are matched: the position is sold, and no order
\* for it stays open
EnvFill(t) ==
  /\ BetweenCycles
  /\ t \in DOMAIN live
  /\ openOrders[t] >= 1
  /\ live' = Remove(live, t)
  /\ openOrders' = Put(openOrders, t, 0)
  /\ ev' = NoEvent
  /\ UNCHANGED <<trackerVars, loop2Vars, stopPending, watcherVars, executorPositions, req,
                 botVars>>
  /\ UNCHANGED <<cfg, scope, now, trackedPositions, fileExists, persisted, lastSaveTime,
                 isRunning, pc, positions, todo>>

\* the loop is over: cleanupClosedPositions(positions)
Cleanup ==
  /\ pc = "loop"
  /\ todo = {}
  /\ LET s == CleanupClosedPositions(Mk(trackedPositions, fileExists, persisted, NoEvent),
                                     positions)
     IN /\ trackedPositions' = s.tab
        /\ fileExists' = s.fe
        /\ persisted' = s.file
        /\ ev' = s.ev
  /\ pc' = "save"
  /\ UNCHANGED <<trackerVars, loop2Vars, stopPending, sideVars, req, botVars>>
  /\ UNCHANGED <<cfg, scope, live, now, lastSaveTime, isRunning, positions, todo>>

\* saveStateIfNeeded, then the sleep; the cycle's local positions are gone
SaveStateIfNeeded ==
  /\ pc = "save"
  /\ IF SaveDue(lastSaveTime)
       THEN /\ fileExists' = TRUE
            /\ persisted' = trackedPositions
            /\ lastSaveTime' = now
       ELSE UNCHANGED <<fileExists, persisted, lastSaveTime>>
  /\ pc' = "top"
  /\ positions' = EmptyTab
  /\ ev' = NoEvent
  /\ UNCHANGED <<trackerVars, loop2Vars, stopPending, sideVars, req, botVars>>
  /\ UNCHANGED <<cfg, scope, live, now, trackedPositions, isRunning, todo>>

\* manageTrackedPosition reaches emergencyExit through the trailing stop
\* with a live order to cancel
CancelsInExit(tr, cur) ==
  /\ tr.currentOrderId # Null
  /\ ~IsNewPeak(tr.highestPrice, cur)
  /\ DropTriggered(tr.highestPrice, cur, GetTrailingStop(tr.marketSlug))
  /\ cfg.stopLossEnabled
  /\ ~LossBeyondTolerance(tr.entryPrice, cur)
  /\ ~InBackoff(tr)

\* one iteration of the for loop throws: emergencyExit's cancelOrder, which
\* is outside its try block, throws; the catch of checkAndManagePositions
\* ends the cycle without the remaining positions and without the cleanup
VisitThrows(t) ==
  /\ pc = "loop"
  /\ t \in todo
  /\ t \in DOMAIN trackedPositions
  /\ ~IsResolvedPrice(positions[t].currentPrice)
  /\ CancelsInExit([trackedPositions[t] EXCEPT !.entryPrice = positions[t].avgPrice],
                   positions[t].currentPrice)
  /\ trackedPositions' = Put(trackedPositions, t,
                             [trackedPositions[t] EXCEPT !.size = positions[t].size,
                                                         !.entryPrice = positions[t].avgPrice])
  /\ pc' = "save"
  /\ todo' = {}
  /\ ev' = [NoEvent EXCEPT !.token = t]
  /\ UNCHANGED <<trackerVars, loop2Vars, stopPending, sideVars, req, botVars>>
  /\ UNCHANGED <<cfg, scope, live, now, fileExists, persisted, lastSaveTime, isRunning,
                 positions>>

\* saveStateIfNeeded when the write fails: saveState swallows the error and
\* lastSaveTime is set all the same
SaveStateIfNeededFails ==
  /\ pc = "save"
  /\ SaveDue(lastSaveTime)
  /\ lastSaveTime' = now
  /\ pc' = "top"
  /\ positions' = EmptyTab
  /\ ev' = NoEvent
  /\ UNCHANGED <<trackerVars, loop2Vars, stopPending, sideVars, req, botVars>>
  /\ UNCHANGED <<cfg, scope, live, now, trackedPositions, fileExists, persisted,
                 isRunning, todo>>

\* the process dies and a new one is constructed; only the file survives
Crash ==
  /\ pc # "init"
  /\ pc' = "init"
  /\ isRunning' = FALSE
  /\ trackedPositions' = EmptyTab
  /\ lastSaveTime' = 0
  /\ positions' = EmptyTab
  /\ todo' = {}
  /\ ev' = NoEvent
  /\ stopPending' = FALSE
  /\ UNCHANGED <<sideVars, req>>
  /\ pc2' = "init"
  /\ positions2' = EmptyTab
  /\ todo2' = {}
  /\ UNCHANGED <<trackerVars, botVars>>
  /\ UNCHANGED <<cfg, scope, live, now, fileExists, persisted>>

\* ------------------------------------------------- a second start()
\* start() called again after stop() while the loop of the first start() is
\* still alive (in its sleep or in a call): isRunning is false, so the call
\* goes through, loads the state and runs a loop of its own on the same
\* table.  The steps are those of the first loop, on the second loop's locals.
Start2 ==
  /\ pc \in {"top", "loop", "save"}
  /\ pc2 \in {"init", "done"}
  /\ ~isRunning
  /\ isRunning' = TRUE
  /\ \E ok \in BOOLEAN :
       /\ trackedPositions' = IF fileExists /\ ok
                                THEN LoadState(trackedPositions, persisted, live)
                                ELSE trackedPositions
       /\ ev' = [NoEvent EXCEPT !.loaded = fileExists /\ ok]
  /\ pc2' = "top"
  /\ UNCHANGED <<cfg, scope, live, now, fileExists, persisted, lastSaveTime, pc,
                 positions, todo, positions2, todo2, stopPending, sideVars, req>>
  /\ UNCHANGED <<trackerVars, botVars>>

LoopExit2 ==
  /\ pc2 = "top"
  /\ ~isRunning
  /\ pc2' = "done"
  /\ ev' = NoEvent
  /\ UNCHANGED <<cfg, scope, live, now, trackedPositions, fileExists, persisted,
                 lastSaveTime, isRunning, pc, positions, todo, positions2, todo2,
                 stopPending, sideVars, req>>
  /\ UNCHANGED <<trackerVars, botVars>>

Fetch2 ==
  /\ pc2 = "top"
  /\ isRunning
  /\ positions2' = GetPositionsWithProfit(live)
  /\ todo2' = DOMAIN positions2'
  /\ pc2' = "loop"
  /\ ev' = NoEvent
  /\ UNCHANGED <<cfg, scope, live, now, trackedPositions, fileExists, persisted,
                 lastSaveTime, isRunning, pc, positions, todo, stopPending, sideVars, req>>
  /\ UNCHANGED <<trackerVars, botVars>>

FetchFails2 ==
  /\ pc2 = "top"
  /\ isRunning
  /\ pc2' = "save"
  /\ ev' = NoEvent
  /\ UNCHANGED <<cfg, scope, live, now, trackedPositions, fileExists, persisted,
                 lastSaveTime, isRunning, pc, positions, todo, positions2, todo2,
                 stopPending, sideVars, req>>
  /\ UNCHANGED <<trackerVars, botVars>>

Visit2(t) ==
  /\ pc2 = "loop"
  /\ t \in todo2
  /\ \E s \in VisitPosition(Mk(trackedPositions, fileExists, persisted,
                               [NoEvent EXCEPT !.token = t]), t, positions2[t]) :
       /\ WithinBounds(s.tab)
       /\ trackedPositions' = s.tab
       /\ fileExists' = s.fe
       /\ persisted' = s.file
       /\ ev' = s.ev
  /\ todo2' = todo2 \ {t}
  /\ UNCHANGED <<cfg, scope, live, now, lastSaveTime, isRunning, pc, positions, todo,
                 pc2, positions2, stopPending, sideVars, req>>
  /\ UNCHANGED <<trackerVars, botVars>>

Cleanup2 ==
  /\ pc2 = "loop"
  /\ todo2 = {}
  /\ LET s == CleanupClosedPositions(Mk(trackedPositions, fileExists, persisted, NoEvent),
                                     positions2)
     IN /\ trackedPositions' = s.tab
        /\ fileExists' = s.fe
        /\ persisted' = s.file
        /\ ev' = s.ev
  /\ pc2' = "save"
  /\ UNCHANGED <<cfg, scope, live, now, lastSaveTime, isRunning, pc, positions, todo,
                 positions2, todo2, stopPending, sideVars, req>>
  /\ UNCHANGED <<trackerVars, botVars>>

SaveStateIfNeeded2 ==
  /\ pc2 = "save"
  /\ IF SaveDue(lastSaveTime)
       THEN /\ fileExists' = TRUE
            /\ persisted' = trackedPositions
            /\ lastSaveTime' = now
       ELSE UNCHANGED <<fileExists, persisted, lastSaveTime>>
  /\ pc2' = "top"
  /\ positions2' = EmptyTab
  /\ ev' = NoEvent
  /\ UNCHANGED <<cfg, scope, live, now, trackedPositions, isRunning, pc, positions, todo,
                 todo2, stopPending, sideVars, req>>
  /\ UNCHANGED <<trackerVars, botVars>>

\* ------------------------------------------------- position sizer
\* Amounts are rationals n/d with d > 0: the proportional stake is not a
\* whole number of USDC.
Rat(n, d) == [n |-> n, d |-> d]

Whole(x) == Rat(x, 1)

Less(a, b) == a.n * b.d < b.n * a.d

\* const fixedAmount = this.config.fixed_stake ?? this.config.min_stake
FixedAmount(c) == IF c.fixed_stake = Unset THEN c.min_stake ELSE c.fixed_stake

\* const traderBalance = event.traderBalance || 0
TraderBalance(e) == IF e.traderBalance = Unset THEN 0 ELSE e.traderBalance

ScaledAmountBalanceUnchecked(c, bal, e) ==
  IF c.mode = "fixed" THEN Whole(FixedAmount(c))
  ELSE IF c.mode = "proportional"
       THEN IF TraderBalance(e) > 0
              THEN Rat(e.usdcAmount * bal, TraderBalance(e))
              ELSE Whole(c.min_stake)
       ELSE Whole(c.min_stake)

ScaledAmountFixedIgnored(c, bal, e) ==
  IF c.mode = "proportional" /\ TraderBalance(e) > 0 /\ bal > 0
    THEN Rat(e.usdcAmount * bal, TraderBalance(e))
    ELSE Whole(c.min_stake)

\* calculate, the switch on the mode: the stake before the limits
ScaledAmount(c, bal, e) ==
  IF c.mode = "fixed" THEN Whole(FixedAmount(c))
  ELSE IF c.mode = "proportional"
       THEN IF TraderBalance(e) > 0 /\ bal > 0
              THEN Rat(e.usdcAmount * bal, TraderBalance(e))
              ELSE Whole(c.min_stake)
       ELSE Whole(c.min_stake)

ApplyLimitsNoMax(c, stake) ==
  IF Less(stake, Whole(c.min_stake))
    THEN [capped |-> TRUE, amount |-> Whole(c.min_stake)]
    ELSE [capped |-> FALSE, amount |-> stake]

\* applyLimits
ApplyLimits(c, stake) ==
  IF Less(stake, Whole(c.min_stake))
    THEN [capped |-> TRUE, amount |-> Whole(c.min_stake)]
  ELSE IF Less(Whole(c.max_stake), stake)
    THEN [capped |-> TRUE, amount |-> Whole(c.max_stake)]
  ELSE [capped |-> FALSE, amount |-> stake]

\* calculate: the SizingResult, with the inputs it was computed from
Calculate(c, bal, e) ==
  LET raw == ScaledAmount(c, bal, e)
      lim == ApplyLimits(c, raw)
  IN [called |-> TRUE, config |-> c, myBalance |-> bal, event |-> e, raw |-> raw,
      capped |-> lim.capped, scaledAmount |-> lim.amount]

NoEventSeen == [side |-> "", tokenId |-> "", usdcAmount |-> 0, traderBalance |-> Unset]

NoSizing ==
  [called |-> FALSE, config |-> CONFIG, myBalance |-> 0, event |-> NoEventSeen,
   raw |-> Whole(0), capped |-> FALSE, scaledAmount |-> Whole(0)]

\* "config set" of the CLI stores a mode and stakes
ConfigSet(c) ==
  /\ c # config
  /\ config' = c
  /\ UNCHANGED <<myBalance, sizing, tokenBuyCount, tokenCooldown, isPaused, proc, usdc,
                 buysSince>>
  /\ UNCHANGED <<envVars, engineVars, trackerVars, loop2Vars, stopPending, sideVars, req>>

\* setMyBalance
SetMyBalance(b) ==
  /\ b # myBalance
  /\ myBalance' = b
  /\ UNCHANGED <<config, sizing, tokenBuyCount, tokenCooldown, isPaused, proc, usdc,
                 buysSince>>
  /\ UNCHANGED <<envVars, engineVars, trackerVars, loop2Vars, stopPending, sideVars, req>>

\* calculate(event)
SizerCalculate(e) ==
  /\ sizing' = Calculate(config, myBalance, e)
  /\ UNCHANGED <<config, myBalance, tokenBuyCount, tokenCooldown, isPaused, proc, usdc,
                 buysSince>>
  /\ UNCHANGED <<envVars, engineVars, trackerVars, loop2Vars, stopPending, sideVars, req>>

\* ------------------------------------------ bot: limits per token
\* maxBuysPerToken = config.max_buys_per_token || 3
MaxBuysPerToken == IF config.max_buys_per_token = 0 THEN DefaultMaxBuys
                   ELSE config.max_buys_per_token

\* cooldownMinutes = config.cooldown_minutes || 30
CooldownMinutes == IF config.cooldown_minutes = 0 THEN DefaultCooldown
                   ELSE config.cooldown_minutes

RECURSIVE SetAll(_, _, _)
SetAll(tab, S, v) ==
  IF S = {} THEN tab
  ELSE LET k == CHOOSE x \in S : TRUE
       IN SetAll((k :> v) @@ tab, S \ {k}, v)

\* onPositionClosed for each token of S: the buy count is deleted and the
\* cooldown set to end at Date.now() + cooldownMinutes
OnPositionClosed(S) ==
  /\ tokenBuyCount' = SetAll(tokenBuyCount, S, 0)
  /\ tokenCooldown' = SetAll(tokenCooldown, S, now + CooldownMinutes)

\* -------------------------------------------------------- PnL tracker
\* PnL is in 0.000001 USDC: a size in 0.01 share times a price in 0.0001 USDC.
NoSnapshot == [taken |-> FALSE, positions |-> EmptyTab, usdcBalance |-> 0]

IdleCall == [pc |-> "idle", previousSnapshot |-> NoSnapshot, response |-> NoSnapshot]

RECURSIVE Const(_, _)
Const(S, v) ==
  IF S = {} THEN << >>
  ELSE LET k == CHOOSE x \in S : TRUE IN (k :> v) @@ Const(S \ {k}, v)

NoCalls == Const(Callers, IdleCall)

NoCounts == Const(Tokens, 0)

\* the map of takeSnapshot: one PositionSnapshot of a raw position
PositionSnapshot(p) ==
  [marketSlug |-> p.marketSlug,
   unrealizedPnL |-> p.size * EffectivePrice(p) - p.size * p.avgPrice]

\* takeSnapshot: the positions of size > 0.01, each with its unrealized PnL,
\* and the wallet's free balance
TakeSnapshot(raw) ==
  LET held == {t \in DOMAIN raw : raw[t].size > MinSize}
  IN [taken |-> TRUE,
      positions |-> Restrict([t \in held |-> PositionSnapshot(raw[t])], held),
      usdcBalance |-> usdc]

\* the positions of previousSnapshot that currentSnapshot no longer holds
ClosedIn(prev, cur) == (DOMAIN prev.positions) \ (DOMAIN cur.positions)

RECURSIVE SumPnL(_, _)
SumPnL(tab, S) ==
  IF S = {} THEN 0
  ELSE LET k == CHOOSE x \in S : TRUE IN tab[k].unrealizedPnL + SumPnL(tab, S \ {k})

IsWinAnyGain(realized) == realized > 0

\* realized > 0.01
IsWin(realized) == realized > WinThreshold

\* realized < -0.01
IsLoss(realized) == realized < 0 - WinThreshold

\* getPnLInfo().sessionPnL
SessionPnL ==
  IF startSnapshot.taken /\ currentSnapshot.taken THEN realizedPnL ELSE 0

RECURSIVE Bump(_, _)
Bump(counts, S) ==
  IF S = {} THEN counts
  ELSE LET k == CHOOSE x \in S : TRUE
       IN Bump((k :> (counts[k] + 1)) @@ counts, S \ {k})

\* lastSeen after currentSnapshot becomes snap
Seen(seen, snap) ==
  LET all == (DOMAIN seen) \cup (DOMAIN snap.positions)
  IN Restrict([t \in all |-> IF t \in DOMAIN snap.positions THEN snap.positions[t]
                             ELSE seen[t]], all)

\* initialize(): startSnapshot = await takeSnapshot(); currentSnapshot =
\* startSnapshot; startBot then pauses if the balance is below the minimum
Initialize ==
  /\ ~startSnapshot.taken
  /\ startSnapshot' = TakeSnapshot(live)
  /\ currentSnapshot' = startSnapshot'
  /\ lastSeen' = Seen(lastSeen, startSnapshot')
  /\ isPaused' = (usdc < config.min_stake)
  /\ UNCHANGED <<realizedPnL, winCount, lossCount, calls, started, closures, callbacks,
                 expectedPnL>>
  /\ UNCHANGED <<config, myBalance, sizing, tokenBuyCount, tokenCooldown, proc, usdc,
                 buysSince>>
  /\ UNCHANGED <<envVars, engineVars, loop2Vars, stopPending, sideVars, req>>

\* update() is entered, by the loop of start() or by forceUpdate() after a
\* trade: previousSnapshot = this.currentSnapshot, then takeSnapshot is awaited
UpdateBegin(c) ==
  /\ startSnapshot.taken
  /\ calls[c].pc = "idle"
  /\ started < MaxUpdates
  /\ started' = started + 1
  /\ calls' = Put(calls, c, [pc |-> "awaiting", previousSnapshot |-> currentSnapshot,
                             response |-> NoSnapshot])
  /\ UNCHANGED <<startSnapshot, currentSnapshot, realizedPnL, winCount, lossCount,
                 closures, callbacks, lastSeen, expectedPnL>>
  /\ UNCHANGED <<envVars, engineVars, loop2Vars, stopPending, sideVars, req, botVars>>

\* the data API answers the call's position request
UpdateFetch(c) ==
  /\ calls[c].pc = "awaiting"
  /\ calls' = Put(calls, c, [pc |-> "resolved",
                             previousSnapshot |-> calls[c].previousSnapshot,
                             response |-> TakeSnapshot(live)])
  /\ UNCHANGED <<startSnapshot, currentSnapshot, realizedPnL, winCount, lossCount,
                 started, closures, callbacks, lastSeen, expectedPnL>>
  /\ UNCHANGED <<envVars, engineVars, loop2Vars, stopPending, sideVars, req, botVars>>

\* takeSnapshot throws: update() returns without a change
UpdateFail(c) ==
  /\ calls[c].pc = "awaiting"
  /\ calls' = Put(calls, c, IdleCall)
  /\ UNCHANGED <<startSnapshot, currentSnapshot, realizedPnL, winCount, lossCount,
                 started, closures, callbacks, lastSeen, expectedPnL>>
  /\ UNCHANGED <<envVars, engineVars, loop2Vars, stopPending, sideVars, req, botVars>>

\* wallet.getBalance() catches the error of its balance requests and returns
\* a balance of zeros (getPolymarketBalance does the same): takeSnapshot does
\* not throw and builds a snapshot with usdcBalance 0
UpdateFetchNoBalance(c) ==
  /\ calls[c].pc = "awaiting"
  /\ calls' = Put(calls, c, [pc |-> "defaulted",
                             previousSnapshot |-> calls[c].previousSnapshot,
                             response |-> [TakeSnapshot(live) EXCEPT !.usdcBalance = 0]])
  /\ UNCHANGED <<startSnapshot, currentSnapshot, realizedPnL, winCount, lossCount,
                 started, closures, callbacks, lastSeen, expectedPnL>>
  /\ UNCHANGED <<envVars, engineVars, loop2Vars, stopPending, sideVars, req, botVars>>

\* getWalletPositions() catches a 404 answer of the position request and
\* returns []: takeSnapshot does not throw and builds a snapshot without
\* positions
UpdateFetchNotFound(c) ==
  /\ calls[c].pc = "awaiting"
  /\ calls' = Put(calls, c, [pc |-> "defaulted",
                             previousSnapshot |-> calls[c].previousSnapshot,
                             response |-> TakeSnapshot(EmptyTab)])
  /\ UNCHANGED <<startSnapshot, currentSnapshot, realizedPnL, winCount, lossCount,
                 started, closures, callbacks, lastSeen, expectedPnL>>
  /\ UNCHANGED <<envVars, engineVars, loop2Vars, stopPending, sideVars, req, botVars>>

\* the call resumes: this.currentSnapshot = the snapshot, then the closures
\* against the call's previousSnapshot are counted and reported
UpdateEnd(c) ==
  /\ calls[c].pc \in {"resolved", "defaulted"}
  /\ LET prev == calls[c].previousSnapshot
         snap == calls[c].response
         closed == IF prev.taken THEN ClosedIn(prev, snap) ELSE {}
         wins == {t \in closed : IsWin(prev.positions[t].unrealizedPnL)}
         losses == {t \in closed : IsLoss(prev.positions[t].unrealizedPnL)}
     IN /\ currentSnapshot' = snap
        /\ realizedPnL' = realizedPnL + SumPnL(prev.positions, closed)
        /\ winCount' = winCount + Cardinality(wins)
        /\ lossCount' = lossCount + Cardinality(losses)
        /\ callbacks' = Bump(callbacks, closed)
        /\ closures' = Bump(closures, ClosedIn(currentSnapshot, snap))
        /\ expectedPnL' = expectedPnL + SumPnL(lastSeen, closed)
        /\ lastSeen' = Seen(lastSeen, snap)
        /\ OnPositionClosed(closed)
  /\ calls' = Put(calls, c, IdleCall)
  /\ UNCHANGED <<startSnapshot, started>>
  /\ UNCHANGED <<config, myBalance, sizing, isPaused, proc, usdc, buysSince>>
  /\ UNCHANGED <<envVars, engineVars, loop2Vars, stopPending, sideVars, req>>

\* ---------------------------------------------------------------- bot
\* getPnLInfo().usdcBalance || 0
UsdcBalance ==
  IF startSnapshot.taken /\ currentSnapshot.taken THEN currentSnapshot.usdcBalance ELSE 0

IdleProc == [pc |-> "idle", event |-> NoEventSeen, skipped |-> ""]

\* isInCooldown(tokenId), which deletes an entry that has expired
IsInCooldown(t) == tokenCooldown[t] # 0 /\ now < tokenCooldown[t]

LowBalanceNever(side) == FALSE

\* trade.side === 'BUY' && currentBalance < minStake
LowBalance(side) == side = "BUY" /\ UsdcBalance < config.min_stake

\* processTradeEvent up to its first await: the checks on a BUY, the sizing,
\* and the call of executor.openPosition
ReceiveEvent(e) ==
  /\ startSnapshot.taken
  /\ proc.pc = "idle"
  /\ LET t == e.tokenId
         buy == e.side = "BUY"
         sports == config.skip_sports /\ buy /\ IsSportsMarket(cfg.slug[t])
         low == ~sports /\ LowBalance(e.side)
         checked == buy /\ ~sports /\ ~low
         cool == checked /\ IsInCooldown(t)
         full == checked /\ ~cool /\ tokenBuyCount[t] >= MaxBuysPerToken
         skip == IF sports THEN "sports" ELSE IF low THEN "balance"
                 ELSE IF cool THEN "cooldown" ELSE IF full THEN "limit" ELSE ""
     IN /\ isPaused' = (isPaused \/ low)
        /\ tokenCooldown' = IF checked /\ ~cool THEN (t :> 0) @@ tokenCooldown
                             ELSE tokenCooldown
        /\ sizing' = IF skip = "" THEN Calculate(config, myBalance, e) ELSE sizing
        /\ proc' = [pc |-> IF skip = "" THEN "opening" ELSE "idle", event |-> e,
                    skipped |-> skip]
  /\ UNCHANGED <<config, myBalance, tokenBuyCount, usdc, buysSince>>
  /\ UNCHANGED <<envVars, engineVars, trackerVars, loop2Vars, stopPending, sideVars, req>>

\* executor.openPosition returns success: the trade is done at the venue,
\* a BUY is counted, and forceUpdate() enters update() up to its await
OpenSucceeds ==
  /\ proc.pc = "opening"
  /\ calls["force"].pc = "idle"
  /\ started < MaxUpdates
  /\ LET t == proc.event.tokenId
         buy == proc.event.side = "BUY"
     IN /\ buy \/ t \in DOMAIN live
        /\ live' = IF ~buy THEN Remove(live, t)
                    ELSE IF t \in DOMAIN live THEN live
                    ELSE Put(live, t, RawPosition(t, CHOOSE x \in scope.sizes : TRUE,
                                                   CHOOSE x \in scope.avgs : TRUE,
                                                   CHOOSE x \in scope.prices : TRUE))
        /\ tokenBuyCount' = IF buy THEN (t :> (tokenBuyCount[t] + 1)) @@ tokenBuyCount
                             ELSE tokenBuyCount
        /\ buysSince' = IF buy THEN (t :> (buysSince[t] + 1)) @@ buysSince
                         ELSE (t :> 0) @@ buysSince
  /\ started' = started + 1
  /\ calls' = Put(calls, "force", [pc |-> "awaiting", previousSnapshot |-> currentSnapshot,
                                   response |-> NoSnapshot])
  /\ proc' = [proc EXCEPT !.pc = "updating"]
  /\ UNCHANGED <<config, myBalance, sizing, tokenCooldown, isPaused, usdc>>
  /\ UNCHANGED <<cfg, scope, now, engineVars, loop2Vars, stopPending, sideVars, req>>
  /\ UNCHANGED <<startSnapshot, currentSnapshot, realizedPnL, winCount, lossCount,
                 closures, callbacks, lastSeen, expectedPnL>>

\* executor.openPosition returns a failure or throws
OpenFails ==
  /\ proc.pc = "opening"
  /\ proc' = IdleProc
  /\ UNCHANGED <<config, myBalance, sizing, tokenBuyCount, tokenCooldown, isPaused, usdc,
                 buysSince>>
  /\ UNCHANGED <<envVars, engineVars, trackerVars, loop2Vars, stopPending, sideVars, req>>

\* forceUpdate() has returned: the sizer's balance, pause and resume
AfterForceUpdate ==
  /\ proc.pc = "updating"
  /\ calls["force"].pc = "idle"
  /\ myBalance' = UsdcBalance
  /\ isPaused' = (UsdcBalance < config.min_stake)
  /\ proc' = IdleProc
  /\ UNCHANGED <<config, sizing, tokenBuyCount, tokenCooldown, usdc, buysSince>>
  /\ UNCHANGED <<envVars, engineVars, trackerVars, loop2Vars, stopPending, sideVars, req>>

\* the free balance changes: a fill, a sale, a deposit
EnvBalance(b) ==
  /\ b # usdc
  /\ usdc' = b
  /\ UNCHANGED <<config, myBalance, sizing, tokenBuyCount, tokenCooldown, isPaused, proc,
                 buysSince>>
  /\ UNCHANGED <<envVars, engineVars, trackerVars, loop2Vars, stopPending, sideVars, req>>

\* --------------------------------------------------------- retry logic
\* withRetry(fn, maxRetries = 3, delayMs): attempts of a CLOB client call
maxRetries == 3
\* MAX_RETRIES of the data and gamma API clients' response interceptor
MAX_RETRIES == 3

\* the calls wrapped in withRetry, and the requests of the two axios instances
ClobCalls == {"getPrice", "getOrderBook", "getTickSize", "getNegRisk",
              "createAndPostOrder", "getOpenOrders", "cancelOrder"}
ApiCalls == {"dataApi", "gammaApi"}

\* how an attempt can end: a response, an HTTP status, a timeout, no response
Outcomes == {"ok", "400", "429", "500", "502", "503", "504", "timeout", "network"}

\* withRetry: isRetryable, by status code or by the words of the message
ClobRetryable(o) == o \in {"502", "503", "504", "429", "timeout", "network"}

\* isRetryableError of the interceptor: no response, timeout, 5xx, 429
isRetryableError(o) == o \in {"network", "timeout", "500", "502", "503", "504", "429"}

NoRequest == [call |-> "", pc |-> "idle", attempts |-> 0, lastError |-> "", thrown |-> ""]

\* a call is made: its first attempt is sent
RequestBegin(c) ==
  /\ req.pc \in {"idle", "returned", "thrown"}
  /\ req' = [call |-> c, pc |-> "calling", attempts |-> 1, lastError |-> "",
             thrown |-> ""]
  /\ UNCHANGED <<envVars, engineVars, trackerVars, loop2Vars, stopPending, sideVars, botVars>>

\* an attempt of a call wrapped in withRetry ends with outcome o
ClobAttemptEnds(o) ==
  /\ req.pc = "calling"
  /\ req.call \in ClobCalls
  /\ req' = IF o = "ok" THEN [req EXCEPT !.pc = "returned"]
            ELSE IF ClobRetryable(o) /\ req.attempts < maxRetries
              THEN [req EXCEPT !.pc = "waiting", !.lastError = o]
            ELSE [req EXCEPT !.pc = "thrown", !.lastError = o, !.thrown = o]
  /\ UNCHANGED <<envVars, engineVars, trackerVars, loop2Vars, stopPending, sideVars, botVars>>

\* an attempt of an axios request ends with outcome o: the interceptor
\* retries while config.__retryCount, the retries made so far, is below
\* MAX_RETRIES
ApiAttemptEnds(o) ==
  /\ req.pc = "calling"
  /\ req.call \in ApiCalls
  /\ req' = IF o = "ok" THEN [req EXCEPT !.pc = "returned"]
            ELSE IF isRetryableError(o) /\ req.attempts - 1 < MAX_RETRIES
              THEN [req EXCEPT !.pc = "waiting", !.lastError = o]
            ELSE [req EXCEPT !.pc = "thrown", !.lastError = o, !.thrown = o]
  /\ UNCHANGED <<envVars, engineVars, trackerVars, loop2Vars, stopPending, sideVars, botVars>>

\* the delay before a retry is over: the next attempt is sent
RetryAttempt ==
  /\ req.pc = "waiting"
  /\ req' = [req EXCEPT !.pc = "calling", !.attempts = req.attempts + 1]
  /\ UNCHANGED <<envVars, engineVars, trackerVars, loop2Vars, stopPending, sideVars, botVars>>

\* ----------------------------------------------------- specifications
Configs(triggers, enabled, slugs) ==
  [profitTrigger : triggers, stopLossPercent : StopLossPercents,
   stopLossEnabled : enabled, slug : [Tokens -> slugs]]

\* the same with the default trailing-stop percent drawn from stops
ConfigsWith(triggers, stops, enabled, slugs) ==
  [profitTrigger : triggers, stopLossPercent : stops,
   stopLossEnabled : enabled, slug : [Tokens -> slugs]]

\* what bot.ts passes to new TakeProfitManager(trader, walletAddress,
\* takeProfitPercent, 2000, trailingStopPercent): five arguments, so the
\* sixth parameter, stopLossEnabled, takes its default (true)
TakeProfitManagerArgs(c, slugs) ==
  [profitTrigger : {IF c.profit_take_percent \in {Unset, 0} THEN 15
                    ELSE c.profit_take_percent},
   stopLossPercent : {IF c.trailing_stop_percent \in {Unset, 0} THEN 15
                      ELSE c.trailing_stop_percent},
   stopLossEnabled : {TRUE},
   slug : [Tokens -> slugs]]

Scope(prices, avgs, sizes, ticks) ==
  [prices |-> prices, avgs |-> avgs, sizes |-> sizes, ticks |-> ticks]

\* ------------------------------------------------------ wallet watcher
\* A trade of a wallet as the data API returns it. Two fills of one
\* transaction carry the same transactionHash; "" is a missing hash.
Trade(w, ts, h) == [wallet |-> w, timestamp |-> ts, tokenId |-> "t1", transactionHash |-> h]

\* trade.transactionHash || `${wallet}-${trade.timestamp}-${trade.tokenId}`
TradeId(w, trade) ==
  IF trade.transactionHash # ""
    THEN [transactionHash |-> trade.transactionHash, wallet |-> "", timestamp |-> 0,
          tokenId |-> ""]
    ELSE [transactionHash |-> "", wallet |-> w, timestamp |-> trade.timestamp,
          tokenId |-> trade.tokenId]

\* getWalletTrades(wallet, limit): the newest limit trades
GetWalletTrades(w, limit) == SubSeq(feed[w], 1, Min(limit, Len(feed[w])))

Range(q) == {q[i] : i \in DOMAIN q}

\* the loop of initialize over one wallet's trades
MarkSeen(seen, w, trades) == seen \cup {TradeId(w, tr) : tr \in Range(trades)}

\* the loop of checkWalletTrades: a trade whose id is in seenTrades is
\* skipped, another is added to seenTrades and to the events
RECURSIVE CheckTrades(_, _, _, _)
CheckTrades(seen, w, trades, events) ==
  IF trades = << >> THEN [seenTrades |-> seen, events |-> events]
  ELSE LET tr == Head(trades)
       IN IF TradeId(w, tr) \in seen
            THEN CheckTrades(seen, w, Tail(trades), events)
            ELSE CheckTrades(seen \cup {TradeId(w, tr)}, w, Tail(trades),
                             Append(events, tr))

\* the wallet after position i of this.wallets, and whether the round ends
NextWallet(i) == IF i < Len(WalletList) THEN i + 1 ELSE 1

AllTrades == UNION {Range(feed[w]) : w \in Wallets}

\* a tracked wallet trades
EnvWalletTrade(w, h) ==
  /\ Cardinality(AllTrades) < MaxTrades
  /\ feed' = Put(feed, w, <<Trade(w, Cardinality(AllTrades) + 1, h)>> \o feed[w])
  /\ UNCHANGED <<seenTrades, yielded, atStart, watchPc, executorPositions, openOrders>>
  /\ UNCHANGED <<envVars, engineVars, trackerVars, loop2Vars, stopPending, botVars, req>>

\* stream() is called: initialize() begins
StreamStart ==
  /\ watchPc.at = "new"
  /\ watchPc' = [at |-> "initialize", next |-> 1]
  /\ atStart' = AllTrades
  /\ UNCHANGED <<seenTrades, feed, yielded, executorPositions, openOrders>>
  /\ UNCHANGED <<envVars, engineVars, trackerVars, loop2Vars, stopPending, botVars, req>>

\* after wallet i of initialize(): the next wallet, or the polling loop
AfterInitialize(i) ==
  IF i < Len(WalletList) THEN [at |-> "initialize", next |-> i + 1]
  ELSE [at |-> "poll", next |-> 1]

\* initialize(), one wallet: its newest 50 trades are marked as seen
InitializeWallet ==
  /\ watchPc.at = "initialize"
  /\ LET w == WalletList[watchPc.next]
     IN seenTrades' = MarkSeen(seenTrades, w, GetWalletTrades(w, InitializeLimit))
  /\ watchPc' = AfterInitialize(watchPc.next)
  /\ UNCHANGED <<feed, yielded, atStart, executorPositions, openOrders>>
  /\ UNCHANGED <<envVars, engineVars, trackerVars, loop2Vars, stopPending, botVars, req>>

\* initialize(), one wallet: getWalletTrades throws, the catch ignores it
InitializeFails ==
  /\ watchPc.at = "initialize"
  /\ watchPc' = AfterInitialize(watchPc.next)
  /\ UNCHANGED <<seenTrades, feed, yielded, atStart, executorPositions, openOrders>>
  /\ UNCHANGED <<envVars, engineVars, trackerVars, loop2Vars, stopPending, botVars, req>>

\* the loop of stream(), one wallet: checkWalletTrades over its newest 20
\* trades, and the events yielded one by one
CheckWalletTrades ==
  /\ watchPc.at = "poll"
  /\ LET w == WalletList[watchPc.next]
         r == CheckTrades(seenTrades, w, GetWalletTrades(w, PollLimit), << >>)
     IN /\ seenTrades' = r.seenTrades
        /\ yielded' = yielded \o r.events
  /\ watchPc' = [at |-> "poll", next |-> NextWallet(watchPc.next)]
  /\ UNCHANGED <<feed, atStart, executorPositions, openOrders>>
  /\ UNCHANGED <<envVars, engineVars, trackerVars, loop2Vars, stopPending, botVars, req>>

\* checkWalletTrades: getWalletTrades throws, the catch returns no events
CheckWalletTradesFails ==
  /\ watchPc.at = "poll"
  /\ watchPc' = [at |-> "poll", next |-> NextWallet(watchPc.next)]
  /\ UNCHANGED <<seenTrades, feed, yielded, atStart, executorPositions, openOrders>>
  /\ UNCHANGED <<envVars, engineVars, trackerVars, loop2Vars, stopPending, botVars, req>>

\* ------------------------------------------------------ trade executor
\* Stakes are in USDC. A source wallet of "" is an absent argument; wallet
\* addresses are lower-case, so that toLowerCase() changes nothing.
RECURSIVE SumStakes(_)
SumStakes(parts) ==
  IF parts = << >> THEN 0 ELSE Head(parts).stake + SumStakes(Tail(parts))

\* parts.find(p => p.wallet === sourceWallet): the first such part, if any
RECURSIVE Find(_, _)
Find(parts, w) ==
  IF parts = << >> THEN << >>
  ELSE IF Head(parts).wallet = w THEN <<Head(parts)>>
  ELSE Find(Tail(parts), w)

\* parts.filter(p => p.wallet !== sourceWallet)
RECURSIVE Filter(_, _)
Filter(parts, w) ==
  IF parts = << >> THEN << >>
  ELSE IF Head(parts).wallet = w THEN Filter(Tail(parts), w)
  ELSE <<Head(parts)>> \o Filter(Tail(parts), w)

\* openPosition, side SELL: the positions after the call, for a sale that
\* succeeds (ok) or fails
SellPosition(tab, t, sourceWallet, ok) ==
  IF t \notin DOMAIN tab THEN tab
  ELSE LET existingPosition == tab[t]
           part == Find(existingPosition.parts, sourceWallet)
       IN IF sourceWallet # "" /\ part = << >> THEN tab
          ELSE LET sellAmount == IF sourceWallet # "" THEN part[1].stake
                                 ELSE existingPosition.totalStake
                   parts == Filter(existingPosition.parts, sourceWallet)
               IN IF ~ok THEN tab
                  ELSE IF sourceWallet = "" THEN Remove(tab, t)
                  ELSE IF parts = << >> THEN Remove(tab, t)
                  ELSE Put(tab, t, [parts |-> parts,
                                    totalStake |-> existingPosition.totalStake - sellAmount])

\* openPosition, side BUY: a part is pushed on the existing position, or a
\* position with that part alone is set
BuyPosition(tab, t, stake, sourceWallet, ok) ==
  LET part == [wallet |-> IF sourceWallet # "" THEN sourceWallet ELSE "unknown",
               stake |-> stake]
  IN IF ~ok THEN tab
     ELSE IF t \in DOMAIN tab
       THEN Put(tab, t, [parts |-> Append(tab[t].parts, part),
                         totalStake |-> tab[t].totalStake + stake])
     ELSE Put(tab, t, [parts |-> <<part>>, totalStake |-> stake])

\* openPosition(tokenId, side, stake, price, sourceWallet); the bot awaits
\* each call before it makes the next
OpenPosition(t, side, stake, sourceWallet, ok) ==
  /\ side = "BUY" /\ t \in DOMAIN executorPositions
       => /\ Len(executorPositions[t].parts) < MaxParts
          /\ executorPositions[t].totalStake + stake <= MaxTotalStake
  /\ executorPositions' =
       IF side = "SELL" THEN SellPosition(executorPositions, t, sourceWallet, ok)
       ELSE BuyPosition(executorPositions, t, stake, sourceWallet, ok)
  /\ UNCHANGED <<watcherVars, openOrders>>
  /\ UNCHANGED <<envVars, engineVars, trackerVars, loop2Vars, stopPending, botVars, req>>

\* the bot's state at startup: a Config of configs, a free balance of balances
InitBot(configs, balances) ==
  /\ config \in configs
  /\ usdc \in balances
  /\ myBalance = usdc
  /\ sizing = NoSizing
  /\ tokenBuyCount = NoCounts
  /\ tokenCooldown = NoCounts
  /\ isPaused = FALSE
  /\ proc = IdleProc
  /\ buysSince = NoCounts
  /\ seenTrades = {}
  /\ feed = [w \in Wallets |-> << >>]
  /\ yielded = << >>
  /\ atStart = {}
  /\ watchPc = [at |-> "new", next |-> 1]
  /\ executorPositions = EmptyTab

\* the engine and the tracker after construction, for a configuration of
\* cfgs in a venue of scope sc
InitEngine(cfgs, sc) ==
  /\ cfg \in cfgs
  /\ scope = sc
  /\ live = EmptyTab
  /\ now = StartTime
  /\ trackedPositions = EmptyTab
  /\ fileExists = FALSE
  /\ persisted = EmptyTab
  /\ lastSaveTime = 0
  /\ isRunning = FALSE
  /\ pc = "init"
  /\ openOrders = NoCounts
  /\ positions = EmptyTab
  /\ todo = {}
  /\ ev = NoEvent
  /\ startSnapshot = NoSnapshot
  /\ currentSnapshot = NoSnapshot
  /\ realizedPnL = 0
  /\ winCount = 0
  /\ lossCount = 0
  /\ calls = NoCalls
  /\ started = 0
  /\ closures = NoCounts
  /\ callbacks = NoCounts
  /\ lastSeen = EmptyTab
  /\ expectedPnL = 0
  /\ pc2 = "init"
  /\ positions2 = EmptyTab
  /\ todo2 = {}
  /\ stopPending = FALSE
  /\ req = NoRequest

\* the state after construction with the bot's default Config
InitWith(cfgs, sc) == InitEngine(cfgs, sc) /\ InitBot({CONFIG}, {0})

\* The running engine with the bot's defaults (trigger 15 %, stop 15 %,
\* stop-loss enabled), on a sports and on a non-sports market.
Init == InitWith(Configs({15}, {TRUE}, Slugs),
                 Scope(MarketPrices, {5000}, {1000}, MaxTicks))

Next ==
  \/ \E t \in Tokens : EnvOpen(t)
  \/ \E t \in Tokens : EnvPrice(t)
  \/ \E t \in Tokens : EnvClose(t)
  \/ Tick
  \/ Start
  \/ Fetch
  \/ FetchFails
  \/ \E t \in Tokens : Visit(t)
  \/ Cleanup
  \/ SaveStateIfNeeded

Spec == Init /\ [][Next]_vars

\* The running engine with a default trailing stop below and above the
\* sports percent, on a sports and on a non-sports market.
InitSports == InitWith(ConfigsWith({15}, {15, 30}, {TRUE}, Slugs),
                       Scope({5000, 6000, 8000}, {5000}, {1000}, 1))

SpecSports == InitSports /\ [][Next]_vars

\* The engine as the bot starts it, from a configuration with the trailing
\* stop enabled or disabled.
InitStopLoss ==
  /\ InitEngine(ConfigsWith({15}, {15}, BOOLEAN, Slugs),
                Scope({5000, 6000, 8000}, {5000}, {1000}, 1))
  /\ InitBot({CONFIG, [CONFIG EXCEPT !.stop_loss_enabled = FALSE]}, {0})
  /\ cfg \in TakeProfitManagerArgs(config, Slugs)

SpecStopLoss == InitStopLoss /\ [][Next]_vars

\* The engine over a clock long enough for the backoff after a failed
\* emergency exit to run out.
InitBackoff == InitWith(Configs({15}, {TRUE}, {"fed-rate"}),
                        Scope({6000, 8000}, {5000}, {1000}, retryIntervals[2] + 1))

NextBackoff ==
  \/ \E t \in Tokens : EnvOpen(t)
  \/ \E t \in Tokens : EnvPrice(t)
  \/ Tick
  \/ Start
  \/ Fetch
  \/ \E t \in Tokens : Visit(t)
  \/ Cleanup
  \/ SaveStateIfNeeded

SpecBackoff == InitBackoff /\ [][NextBackoff]_vars

\* The engine polling for ever: the loop always takes its next step and the
\* clock runs to the end of the window.
InitReject == InitWith(Configs({15}, {TRUE}, {"fed-rate"}),
                       Scope({6000, 7000}, {5000}, {1000}, RateLimitWindow))

EngineStep ==
  \/ Start
  \/ Fetch
  \/ \E t \in Tokens : Visit(t)
  \/ Cleanup
  \/ SaveStateIfNeeded

NextReject ==
  \/ \E t \in Tokens : EnvOpen(t)
  \/ \E t \in Tokens : EnvPrice(t)
  \/ Tick
  \/ EngineStep

SpecReject ==
  InitReject /\ [][NextReject]_vars /\ WF_vars(EngineStep) /\ WF_vars(Tick)

\* The engine polling for ever, with process restarts: a restart can
\* happen at any point, and the loop of the process that is up always takes
\* its next step.
NextRestore ==
  \/ \E t \in Tokens : EnvOpen(t)
  \/ \E t \in Tokens : EnvPrice(t)
  \/ Tick
  \/ EngineStep
  \/ Crash

SpecRestore ==
  InitReject /\ [][NextRestore]_vars /\ WF_vars(EngineStep) /\ WF_vars(Tick)

\* The engine with the exchange's book of its orders: cancel requests can
\* fail, resting orders can fill, and the process can be restarted.
InitOrders == InitWith(Configs({15}, {TRUE}, {"fed-rate"}),
                       Scope({6000, 7000, 8000}, {5000}, {1000}, RateLimitWindow))

NextOrders ==
  \/ \E t \in Tokens : EnvOpen(t)
  \/ \E t \in Tokens : EnvPrice(t)
  \/ \E t \in Tokens : EnvFill(t)
  \/ Tick
  \/ Start
  \/ Fetch
  \/ \E t \in Tokens : VisitOrders(t)
  \/ Cleanup
  \/ SaveStateIfNeeded
  \/ Crash

SpecOrders == InitOrders /\ [][NextOrders]_vars

\* The engine on a market that can slide step by step under each new order,
\* over a clock long enough for the attempt ceiling to be reached.
InitSlide == InitWith(Configs({15}, {TRUE}, {"nba-finals"}),
                      Scope({7000, 6700, 6400, 6100, 5800, 5500}, {5000}, {1000},
                            RateLimitWindow * MAX_UPDATE_ATTEMPTS))

NextSlide ==
  \/ \E t \in Tokens : EnvOpen(t)
  \/ \E t \in Tokens : EnvPrice(t)
  \/ Tick
  \/ Start
  \/ Fetch
  \/ \E t \in Tokens : Visit(t)
  \/ Cleanup
  \/ SaveStateIfNeeded

SpecSlide == InitSlide /\ [][NextSlide]_vars

\* The same engine while the wallet keeps trading the instrument, so that
\* the average entry price the API reports changes under a tracked entry.
InitEntry == InitWith(Configs({15}, {TRUE}, Slugs),
                      Scope({5000, 5200, 6000, 7000}, AvgPrices, {1000}, MaxTicks - 1))

NextEntry ==
  \/ \E t \in Tokens : EnvOpen(t)
  \/ \E t \in Tokens : EnvPrice(t)
  \/ \E t \in Tokens : EnvTrade(t)
  \/ \E t \in Tokens : EnvClose(t)
  \/ Tick
  \/ Start
  \/ Fetch
  \/ FetchFails
  \/ \E t \in Tokens : Visit(t)
  \/ Cleanup
  \/ SaveStateIfNeeded

SpecEntry == InitEntry /\ [][NextEntry]_vars

\* The engine under each configured profit trigger, on prices just above
\* the entry price.
InitTrigger == InitWith(Configs(ProfitTriggers, {TRUE}, {"fed-rate"}),
                        Scope({5000, 5100, 5200, 6000}, {5000}, {1000}, MaxTicks - 2))

NextTrigger ==
  \/ \E t \in Tokens : EnvOpen(t)
  \/ \E t \in Tokens : EnvPrice(t)
  \/ \E t \in Tokens : EnvClose(t)
  \/ Tick
  \/ Start
  \/ Fetch
  \/ FetchFails
  \/ \E t \in Tokens : Visit(t)
  \/ Cleanup
  \/ SaveStateIfNeeded

SpecTrigger == InitTrigger /\ [][NextTrigger]_vars

\* The engine with process restarts: the process dies at any point and a
\* new one starts from the state file.
InitRestart == InitWith(Configs({15}, {TRUE}, {"fed-rate"}),
                        Scope({0, 5000, 6000, 7000}, {5000}, Sizes, MaxTicks - 2))

NextRestart ==
  \/ \E t \in Tokens : EnvOpen(t)
  \/ \E t \in Tokens : EnvPrice(t)
  \/ \E t \in Tokens : EnvTrade(t)
  \/ \E t \in Tokens : EnvClose(t)
  \/ Tick
  \/ Start
  \/ Fetch
  \/ FetchFails
  \/ \E t \in Tokens : Visit(t)
  \/ Cleanup
  \/ SaveStateIfNeeded
  \/ Crash

SpecRestart == InitRestart /\ [][NextRestart]_vars

\* The engine with process restarts over the full run of the clock, so
\* that periodic saves come due between the restarts.
InitCrash == InitWith(Configs({15}, {TRUE}, {"fed-rate"}),
                      Scope(MarketPrices, {5000}, {1000}, MaxTicks))

NextCrash ==
  \/ \E t \in Tokens : EnvOpen(t)
  \/ \E t \in Tokens : EnvPrice(t)
  \/ \E t \in Tokens : EnvClose(t)
  \/ Tick
  \/ Start
  \/ Fetch
  \/ FetchFails
  \/ \E t \in Tokens : Visit(t)
  \/ Cleanup
  \/ SaveStateIfNeeded
  \/ Crash

SpecCrash == InitCrash /\ [][NextCrash]_vars

\* The engine with stop() and a later start(): stop() can be called at any
\* point of an iteration; start() is called again once the loop has exited.
\* The clock stands still: nothing in stopping depends on it.
\* The runtime resumes a loop whose await has resolved, hence the fairness
\* on the loop's own steps.
InitStop == InitWith(Configs({15}, {TRUE}, {"fed-rate"}),
                     Scope({5000, 6000, 7000}, {5000}, {1000}, 0))

LoopStep ==
  \/ \E t \in Tokens : Visit(t)
  \/ Cleanup
  \/ SaveStateIfNeeded
  \/ LoopExit

NextStop ==
  \/ \E t \in Tokens : EnvOpen(t)
  \/ \E t \in Tokens : EnvPrice(t)
  \/ \E t \in Tokens : EnvClose(t)
  \/ Start
  \/ Stop
  \/ Fetch
  \/ FetchFails
  \/ LoopStep

SpecStop == InitStop /\ [][NextStop]_vars /\ WF_vars(LoopStep)

\* The engine with every failure of an external call: a failed position
\* fetch, rejected and throwing trades, no best bid, a throwing cancel, an
\* unreadable state file and a failed write.  The runtime resumes the loop
\* after each await and each sleep, hence the fairness on the loop's steps.
InitFail == InitWith(Configs({15}, {TRUE}, {"fed-rate"}),
                     Scope({5000, 6000, 7000}, {5000}, {1000}, 0))

CycleStep ==
  \/ Fetch
  \/ FetchFails
  \/ LoopStep
  \/ \E t \in Tokens : VisitThrows(t)
  \/ SaveStateIfNeededFails

NextFail ==
  \/ \E t \in Tokens : EnvOpen(t)
  \/ \E t \in Tokens : EnvPrice(t)
  \/ \E t \in Tokens : EnvClose(t)
  \/ Start
  \/ Stop
  \/ CycleStep

SpecFail == InitFail /\ [][NextFail]_vars /\ WF_vars(CycleStep)

\* The engine with stop() and start() called at any time, a second
\* start() included while the first loop is alive.
InitRestartLoop == InitWith(Configs({15}, {TRUE}, {"fed-rate"}),
                            Scope({5000, 6000, 7000}, {5000}, {1000}, 0))

NextRestartLoop ==
  \/ NextStop
  \/ Start2
  \/ Fetch2
  \/ FetchFails2
  \/ \E t \in Tokens : Visit2(t)
  \/ Cleanup2
  \/ SaveStateIfNeeded2
  \/ LoopExit2

SpecRestartLoop == InitRestartLoop /\ [][NextRestartLoop]_vars

\* The bot's two monitors side by side (bot.ts 166-178): the exit engine's
\* loop and the PnL tracker's update calls, on the same wallet.
InitClosure == InitWith(Configs({15}, {TRUE}, {"fed-rate"}),
                        Scope({5000, 7000}, {5000}, {1000}, 0))

NextClosure ==
  \/ \E t \in Tokens : EnvOpen(t)
  \/ \E t \in Tokens : EnvPrice(t)
  \/ \E t \in Tokens : EnvClose(t)
  \/ Start
  \/ Fetch
  \/ \E t \in Tokens : Visit(t)
  \/ Cleanup
  \/ SaveStateIfNeeded
  \/ Initialize
  \/ \E c \in Callers : UpdateBegin(c)
  \/ \E c \in Callers : UpdateFetch(c)
  \/ \E c \in Callers : UpdateEnd(c)

SpecClosure == InitClosure /\ [][NextClosure]_vars

\* The retry logic on its own: any wrapped call, any outcome of each attempt.
InitRetry == InitWith(Configs({15}, {TRUE}, {"fed-rate"}), Scope({6000}, {5000}, {1000}, 0))

NextRetry ==
  \/ \E c \in ClobCalls \cup ApiCalls : RequestBegin(c)
  \/ \E o \in Outcomes : ClobAttemptEnds(o)
  \/ \E o \in Outcomes : ApiAttemptEnds(o)
  \/ RetryAttempt

SpecRetry == InitRetry /\ [][NextRetry]_vars

\* The position sizer on its own: any stored configuration, any balance,
\* any observed trade.
SizerConfigs ==
  [mode : SizingModes, fixed_stake : FixedStakes, min_stake : MinStakes,
   max_stake : MaxStakes, max_buys_per_token : {DefaultMaxBuys},
   cooldown_minutes : {DefaultCooldown}, skip_sports : {FALSE}]

SizerEvents ==
  [side : {"BUY"}, tokenId : Tokens, usdcAmount : UsdcAmounts,
   traderBalance : TraderBalances]

InitSizer == InitWith(Configs({15}, {TRUE}, {"fed-rate"}), Scope({6000}, {5000}, {1000}, 0))

NextSizer ==
  \/ \E c \in SizerConfigs : ConfigSet(c)
  \/ \E b \in MyBalances : SetMyBalance(b)
  \/ \E e \in SizerEvents : SizerCalculate(e)

SpecSizer == InitSizer /\ [][NextSizer]_vars

\* The bot's event loop with the PnL tracker: observed trades are processed
\* one at a time while the tracker's loop updates, positions close, the
\* balance moves and time passes.
BotConfigs ==
  {[CONFIG EXCEPT !.max_buys_per_token = m, !.cooldown_minutes = cd] :
     m \in {0, 1}, cd \in {0, 1}}

BotBalances == {3, 100}

BotEvents ==
  [side : Sides, tokenId : Tokens, usdcAmount : {100}, traderBalance : {1000}]

InitBotLoop ==
  /\ InitEngine(Configs({15}, {TRUE}, {"fed-rate"}), Scope({6000}, {5000}, {1000}, 2))
  /\ InitBot(BotConfigs, BotBalances)

NextBotLoop ==
  \/ \E t \in Tokens : EnvClose(t)
  \/ \E b \in BotBalances : EnvBalance(b)
  \/ Tick
  \/ Initialize
  \/ UpdateBegin("loop")
  \/ \E c \in Callers : UpdateFetch(c)
  \/ \E c \in Callers : UpdateFail(c)
  \/ \E c \in Callers : UpdateEnd(c)
  \/ \E e \in BotEvents : ReceiveEvent(e)
  \/ OpenSucceeds
  \/ OpenFails
  \/ AfterForceUpdate

SpecBotLoop == InitBotLoop /\ [][NextBotLoop]_vars

\* The PnL tracker alone: the wallet's positions change while the update
\* loop and forceUpdate() calls run.
InitTracker == InitWith(Configs({15}, {TRUE}, {"fed-rate"}),
                        Scope({4800, 6000, 7000}, {5000}, Sizes, 0))

NextTracker ==
  \/ \E t \in Tokens : EnvOpen(t)
  \/ \E t \in Tokens : EnvPrice(t)
  \/ \E t \in Tokens : EnvTrade(t)
  \/ \E t \in Tokens : EnvClose(t)
  \/ Initialize
  \/ \E c \in Callers : UpdateBegin(c)
  \/ \E c \in Callers : UpdateFetch(c)
  \/ \E c \in Callers : UpdateFail(c)
  \/ \E c \in Callers : UpdateEnd(c)

SpecTracker == InitTracker /\ [][NextTracker]_vars

\* The PnL tracker over closures that end in a gain, a loss, and a result
\* within a cent of zero.
InitWinLoss == InitWith(Configs({15}, {TRUE}, {"fed-rate"}),
                        Scope({4800, 6000}, {5000}, {2, 1000}, 0))

NextWinLoss ==
  \/ \E t \in Tokens : EnvOpen(t)
  \/ \E t \in Tokens : EnvPrice(t)
  \/ \E t \in Tokens : EnvClose(t)
  \/ Initialize
  \/ \E c \in Callers : UpdateBegin(c)
  \/ \E c \in Callers : UpdateFetch(c)
  \/ \E c \in Callers : UpdateFail(c)
  \/ \E c \in Callers : UpdateEnd(c)

SpecWinLoss == InitWinLoss /\ [][NextWinLoss]_vars

\* The PnL tracker when the requests of takeSnapshot fail: the position
\* request with an error that is thrown or with a 404, the balance requests
\* with an error that wallet.getBalance() catches.
InitFetchFail ==
  /\ InitEngine(Configs({15}, {TRUE}, {"fed-rate"}), Scope({6000}, {5000}, {1000}, 0))
  /\ InitBot({CONFIG}, BotBalances \ {0})

NextFetchFail ==
  \/ \E t \in Tokens : EnvOpen(t)
  \/ \E t \in Tokens : EnvClose(t)
  \/ Initialize
  \/ \E c \in Callers : UpdateBegin(c)
  \/ \E c \in Callers : UpdateFetch(c)
  \/ \E c \in Callers : UpdateFail(c)
  \/ \E c \in Callers : UpdateFetchNoBalance(c)
  \/ \E c \in Callers : UpdateFetchNotFound(c)
  \/ \E c \in Callers : UpdateEnd(c)

SpecFetchFail == InitFetchFail /\ [][NextFetchFail]_vars

\* The wallet watcher: the tracked wallets trade while stream() initializes
\* and polls, and its requests succeed or fail.
NextWatcher ==
  \/ \E w \in Wallets, h \in Hashes : EnvWalletTrade(w, h)
  \/ StreamStart
  \/ InitializeWallet
  \/ InitializeFails
  \/ CheckWalletTrades
  \/ CheckWalletTradesFails

InitWatcher == InitWith(Configs({15}, {TRUE}, {"fed-rate"}), Scope({6000}, {5000}, {1000}, 0))

SpecWatcher == InitWatcher /\ [][NextWatcher]_vars

\* The trade executor under any sequence of openPosition calls.
NextExecutor ==
  \E t \in Tokens, side \in Sides, stake \in Stakes, w \in SourceWallets, ok \in BOOLEAN :
    OpenPosition(t, side, stake, w, ok)

InitExecutor == InitWith(Configs({15}, {TRUE}, {"fed-rate"}), Scope({6000}, {5000}, {1000}, 0))

SpecExecutor == InitExecutor /\ [][NextExecutor]_vars

\* ------------------------------------------------------------- claims
\* The position a step visited, and the entry it left in the table.
Visited == ev.token \in DOMAIN positions
VisitedPos == positions[ev.token]
StillTracked == ev.token \in DOMAIN trackedPositions
VisitedEntry == trackedPositions[ev.token]

\* A step that cancels a live order and sends a replacement.
Repositions(t) ==
  /\ ev'.token = t /\ ev'.limit > 0
  /\ t \in DOMAIN trackedPositions
  /\ trackedPositions[t].currentOrderId # Null

\* The step just made a state-defining mutation: it started tracking, set
\* an active order, or ran an emergency exit.
OrderSetByStep ==
  /\ StillTracked /\ ev.limit > 0
  /\ VisitedEntry.currentOrderId # Null /\ VisitedEntry.currentOrderPrice = ev.limit

\* The number of kinds of mutation by which the table is ahead of the file.
Mutations(t) ==
  IF (t \in DOMAIN trackedPositions) # (t \in DOMAIN persisted) THEN 1
  ELSE IF t \notin DOMAIN trackedPositions THEN 0
  ELSE LET m == trackedPositions[t]
           f == persisted[t]
       IN (IF m.highestPrice # f.highestPrice THEN 1 ELSE 0)
          + (IF <<m.currentOrderId, m.currentOrderPrice>>
                  # <<f.currentOrderId, f.currentOrderPrice>> THEN 1 ELSE 0)
          + (IF m.updateAttempts # f.updateAttempts THEN 1 ELSE 0)

\* C1: while stop-loss is enabled, a sale completed by an emergency exit
\* that the trailing stop triggered executes at a price at most 1 % below
\* the entry price.  The sale is a fill-or-kill order at the limit ev.sale
\* against a best bid ev.bid: it executes between the two, so the better of
\* them is the best price the sale can have had.
C1_TrailingSaleWithinTolerance ==
  (cfg.stopLossEnabled /\ ev.em = "trailing" /\ ev.sale > 0 /\ ev.bid > 0)
    => Max(ev.sale, ev.bid) * 100 >= 99 * VisitedPos.avgPrice

\* C2: while an instrument stays in the tracking table of the running
\* engine, its highestPrice never decreases from one step to the next.
C2_PeakNonDecreasing ==
  [][\A t \in Tokens :
       (t \in DOMAIN trackedPositions /\ t \in DOMAIN trackedPositions')
         => trackedPositions'[t].highestPrice >= trackedPositions[t].highestPrice]_vars

\* C2 witness: a tracked entry whose peak was raised above the saved one.
C2_Witness ==
  \E t \in (DOMAIN trackedPositions) \cap (DOMAIN persisted) :
    /\ trackedPositions[t].highestPrice > persisted[t].highestPrice
    /\ persisted[t].highestPrice > 0

\* C3 as stated: an active order price of an entry that has not gone
\* through emergencyExit is at least entryPrice x 1.03.
C3_Original ==
  \A t \in DOMAIN trackedPositions :
    (trackedPositions[t].currentOrderPrice > 0 /\ ~trackedPositions[t].emergency)
      => trackedPositions[t].currentOrderPrice * 100 >= trackedPositions[t].entryPrice * 103

\* C3 amended: the price placeOrUpdateOrder sets is at least the floor
\* entryPrice x 1.03 when the current price is at least the floor; when the
\* current price is below the floor (and not below entryPrice x 0.98) it is
\* current x 0.98, which is at least entryPrice x 0.9604.  The floor is
\* taken on the entry price at placement.
C3_FloorAtPlacement ==
  (OrderSetByStep /\ ev.em = "none") =>
    LET cur == VisitedPos.currentPrice
        entry == VisitedPos.avgPrice
    IN /\ VisitedEntry.entryPrice = entry
       /\ (cur * 100 >= entry * 103) => ev.limit * 100 >= entry * 103
       /\ (cur * 100 < entry * 103) =>
            (ev.limit * 100 = cur * 98 /\ ev.limit * 10000 >= entry * 9604)

\* C3 witness: an order set below the floor without any emergency exit.
C3_Witness ==
  /\ OrderSetByStep /\ ev.em = "none" /\ ~VisitedEntry.emergency
  /\ ev.limit * 100 < VisitedPos.avgPrice * 103

\* C4 as stated: every position closure (a token leaving currentSnapshot)
\* is reported by the closure callback exactly once, and no callback is
\* made without one, whatever the interleaving of the update calls.
C4_ClosureReportedOnce ==
  \A t \in Tokens : callbacks[t] = closures[t]

\* C5 as stated: the session PnL is the sum, over the closures detected, of
\* the closed position's unrealized PnL in the last snapshot that held it.
C5_SessionPnLIsClosedSum ==
  startSnapshot.taken => SessionPnL = expectedPnL

\* C6: after startup recovery the table holds exactly the saved entries
\* whose instrument is still held with size > 0.01, each without an active
\* order and with the peak raised to the current price (the average price
\* when the API reports no current price).
C6_RecoveryTable ==
  ev.loaded =>
    /\ DOMAIN trackedPositions
         = {t \in DOMAIN persisted : t \in DOMAIN live /\ live[t].size > MinSize}
    /\ \A t \in DOMAIN trackedPositions :
         LET cur == IF live[t].currentPrice # 0 THEN live[t].currentPrice
                    ELSE live[t].avgPrice
         IN /\ trackedPositions[t].currentOrderId = Null
            /\ trackedPositions[t].currentOrderPrice = 0
            /\ trackedPositions[t].highestPrice
                 = (IF cur > persisted[t].highestPrice THEN cur
                    ELSE persisted[t].highestPrice)

\* C6 witness: a recovery that restored an entry, cleared its stale order
\* and raised its peak.
C6_Witness ==
  /\ ev.loaded
  /\ \E t \in DOMAIN trackedPositions :
       /\ persisted[t].currentOrderPrice > 0
       /\ trackedPositions[t].highestPrice > persisted[t].highestPrice

\* C7 as stated: a reposition happens only after a move of more than the
\* update threshold (5 %) away from the live order, and never within the
\* rate-limit window (30 s) of lastUpdateTime.
C7_Original ==
  [][\A t \in Tokens :
       Repositions(t) =>
         LET old == trackedPositions[t].currentOrderPrice
             cur == positions[t].currentPrice
         IN /\ \/ (cur - old) * 100 > UpdateThreshold * old
               \/ (old - cur) * 100 > UpdateThreshold * old
            /\ now - trackedPositions[t].lastUpdateTime >= RateLimitWindow]_vars

\* C7 amended: a reposition happens (a) on a new peak at least 5 % above
\* the live order's price, at any time, or (b) when the price is below 98 %
\* of the live order's price, and then not within 30 s of lastUpdateTime.
C7_RepositionRule ==
  [][\A t \in Tokens :
       Repositions(t) =>
         LET old == trackedPositions[t].currentOrderPrice
             cur == positions[t].currentPrice
         IN \/ /\ cur > trackedPositions[t].highestPrice
               /\ (cur - old) * 100 >= UpdateThreshold * old
            \/ /\ cur <= trackedPositions[t].highestPrice
               /\ cur * 100 < old * 98
               /\ now - trackedPositions[t].lastUpdateTime >= RateLimitWindow]_vars

\* C7 witness: a reposition after the price fell below the order.
C7_Witness ==
  /\ Visited /\ StillTracked
  /\ ev.limit > 0 /\ ~ev.start
  /\ VisitedEntry.highestPrice > VisitedPos.currentPrice
  /\ VisitedEntry.currentOrderPrice = ev.limit

\* C8 as stated: the initial order's price is at least entryPrice x 1.03
\* and at most the current price.
C8_Original ==
  (ev.start /\ ev.limit > 0) =>
    /\ ev.limit * 100 >= VisitedPos.avgPrice * 103
    /\ ev.limit <= VisitedPos.currentPrice

\* C8 amended: the initial order's price is at most the current price and
\* at least 98 % of it; it is at least entryPrice x 1.03 whenever the
\* current price is, which a profit trigger of 3 % or more guarantees.
C8_InitialOrderBounds ==
  (ev.start /\ ev.limit > 0) =>
    LET cur == VisitedPos.currentPrice
        entry == VisitedPos.avgPrice
    IN /\ ev.limit <= cur
       /\ ev.limit * 100 >= cur * 98
       /\ (cur * 100 >= entry * 103) => ev.limit * 100 >= entry * 103
       /\ (cfg.profitTrigger >= 3) => ev.limit * 100 >= entry * 103

\* C8 witness: tracking starts under a trigger of at least 3 % and the
\* initial order sits on the floor.
C8_Witness ==
  /\ ev.start /\ ev.limit > 0 /\ cfg.profitTrigger >= 3
  /\ ev.limit * 100 = VisitedPos.avgPrice * 103

C11_StopObservedAtTop ==
  /\ [][/\ (isRunning /\ ~isRunning')
             => (pc' = pc /\ todo' = todo /\ trackedPositions' = trackedPositions)
        /\ (~isRunning /\ ~isRunning' /\ pc \in {"loop", "save"})
             => pc' \in {"loop", "save", "top"}
        /\ (~isRunning /\ ~isRunning' /\ pc = "top") => pc' \in {"top", "done"}]_vars
  /\ (~isRunning /\ pc \in {"loop", "save", "top"}) ~> (pc = "done")

\* C11 witness: an order was placed by the iteration in progress after
\* stop() was called.
C11_Witness ==
  /\ ~isRunning /\ pc = "loop"
  /\ ev.token # "" /\ ev.limit > 0 /\ StillTracked
  /\ VisitedEntry.currentOrderId # Null

\* C11 as stated, for any use of stop() and start(): once stop() has been
\* called, the loop that was running begins no new iteration.
C11_NoIterationAfterStop ==
  [][stopPending => ~(pc = "top" /\ pc' = "loop")]_vars

\* C12: at most one poll iteration is in progress at a time.
C12_OneIterationAtATime ==
  ~(pc \in {"loop", "save"} /\ pc2 \in {"loop", "save"})

\* C13: no failure of an external call ends the loop: the loop exits only
\* after stop(), every cycle in progress comes to its end, and while the
\* engine is not stopped the next cycle begins.
C13_FailuresNeverEndLoop ==
  /\ [][(pc # "done" /\ pc' = "done") => ~isRunning]_vars
  /\ (pc \in {"loop", "save"}) ~> (pc = "top")
  /\ (pc = "top" /\ isRunning) ~> (pc \in {"loop", "save"} \/ ~isRunning)

\* C13 witness: a new cycle has begun with an entry in the table whose
\* emergency exit failed in an earlier cycle.
C13_Witness ==
  /\ isRunning /\ pc = "loop" /\ todo # {} /\ ev.token = ""
  /\ \E t \in DOMAIN trackedPositions : trackedPositions[t].emergencyFailedCount > 0

\* C14 as stated: when the exit engine removes an instrument's entry from
\* its table, the tracker has already taken the instrument out of its
\* snapshot, which is the step that fires the closure callback.
C14_CallbackBeforeRemoval ==
  [][\A t \in Tokens :
       (/\ startSnapshot.taken
        /\ t \in DOMAIN trackedPositions
        /\ t \notin DOMAIN trackedPositions')
       => t \notin DOMAIN currentSnapshot.positions]_vars

\* C15 as stated: whatever the configuration and the inputs, the stake
\* returned by calculate lies within [min_stake, max_stake].
C15_Original ==
  sizing.called =>
    /\ ~Less(sizing.scaledAmount, Whole(sizing.config.min_stake))
    /\ ~Less(Whole(sizing.config.max_stake), sizing.scaledAmount)

\* C15 corrected: the stake lies within [min_stake, max_stake] when
\* min_stake <= max_stake; when min_stake > max_stake it is min_stake for a
\* computed stake below min_stake and max_stake otherwise.  With mode
\* proportional, operator balance 10, counterpart balance 3,500,000,
\* observed amount 1700 and min 5 the stake is 5.
C15_StakeWithinLimits ==
  sizing.called =>
    LET c == sizing.config
        e == sizing.event
    IN /\ c.min_stake <= c.max_stake =>
            /\ ~Less(sizing.scaledAmount, Whole(c.min_stake))
            /\ ~Less(Whole(c.max_stake), sizing.scaledAmount)
       /\ c.min_stake > c.max_stake =>
            sizing.scaledAmount = IF Less(sizing.raw, Whole(c.min_stake))
                                    THEN Whole(c.min_stake) ELSE Whole(c.max_stake)
       /\ (/\ c.mode = "proportional" /\ sizing.myBalance = 10
           /\ e.traderBalance = 3500000 /\ e.usdcAmount = 1700 /\ c.min_stake = 5)
          => sizing.scaledAmount = Whole(5)

\* C15 witness: the example of the claim has been computed, and clamped.
C15_Witness ==
  /\ sizing.called /\ sizing.config.mode = "proportional" /\ sizing.myBalance = 10
  /\ sizing.event.traderBalance = 3500000 /\ sizing.event.usdcAmount = 1700
  /\ sizing.config.min_stake = 5 /\ sizing.capped

\* C16 as stated: in fixed mode the stake is the configured fixed stake,
\* whatever the amount, the balances, min and max.
C16_Original ==
  (sizing.called /\ sizing.config.mode = "fixed" /\ sizing.config.fixed_stake # Unset)
    => sizing.scaledAmount = Whole(sizing.config.fixed_stake)

\* C16 corrected: in fixed mode the stake is the configured fixed stake
\* (min_stake when none is configured) brought into the limits: min_stake
\* if it is below min_stake, else max_stake if it is above max_stake;
\* whatever the observed amount and the balances.
C16_FixedStakeWithinLimits ==
  (sizing.called /\ sizing.config.mode = "fixed") =>
    LET c == sizing.config
        f == IF c.fixed_stake = Unset THEN c.min_stake ELSE c.fixed_stake
    IN sizing.scaledAmount = Whole(IF f < c.min_stake THEN c.min_stake
                                   ELSE IF f > c.max_stake THEN c.max_stake ELSE f)

\* C16 witness: a fixed stake inside the limits was returned for a large
\* observed amount.
C16_Witness ==
  /\ sizing.called /\ sizing.config.mode = "fixed" /\ sizing.config.fixed_stake = 10
  /\ sizing.config.min_stake = 5 /\ sizing.event.usdcAmount = 1700
  /\ sizing.scaledAmount = Whole(10) /\ ~sizing.capped

\* C17: in proportional mode the stake before the limits is
\* observedAmount x (operatorBalance / counterpartBalance) when both
\* balances are known and positive, and min_stake when the counterpart's
\* balance is unknown or zero or the operator's is zero.
C17_ProportionalStake ==
  (sizing.called /\ sizing.config.mode = "proportional") =>
    LET e == sizing.event
    IN /\ (e.traderBalance > 0 /\ sizing.myBalance > 0)
            => /\ sizing.raw.n = e.usdcAmount * sizing.myBalance
               /\ sizing.raw.d = e.traderBalance
       /\ (e.traderBalance \in {Unset, 0} \/ sizing.myBalance = 0)
            => sizing.raw = Whole(sizing.config.min_stake)

\* C17 witness: a proportional stake was computed from two positive
\* balances and it is neither the observed amount nor min_stake.
C17_Witness ==
  /\ sizing.called /\ sizing.config.mode = "proportional"
  /\ sizing.event.traderBalance = 1000 /\ sizing.myBalance = 10
  /\ sizing.event.usdcAmount = 1700 /\ sizing.raw = Rat(17000, 1000)

\* C18 as stated: no copy BUY of a token is executed while the cooldown set
\* by the token's last closure callback has not ended.
C18_NoBuyInCooldown ==
  [][(proc.pc = "opening" /\ proc'.pc = "updating" /\ proc.event.side = "BUY")
       => ~IsInCooldown(proc.event.tokenId)]_vars

\* C19 as stated: since the last closure of a token (or since the start)
\* at most max_buys_per_token copy BUYs of it have succeeded.
C19_BuysBetweenClosures ==
  \A t \in Tokens : buysSince[t] <= config.max_buys_per_token

\* C20: a BUY is handed to the executor only when the free balance of the
\* tracker's latest snapshot is at least min_stake, and a SELL event is
\* always handed to the executor.
C20_NoBuyBelowMinStake ==
  [][/\ (proc.pc = "idle" /\ proc'.pc = "opening" /\ proc'.event.side = "BUY")
          => UsdcBalance >= config.min_stake
     /\ (proc.pc = "idle" /\ proc' # proc /\ proc'.event.side = "SELL")
          => proc'.pc = "opening"]_vars

\* C20 witness: the bot is paused, the snapshot's balance is below
\* min_stake, and a SELL has been handed to the executor.
C20_Witness ==
  /\ isPaused /\ UsdcBalance < config.min_stake
  /\ proc.pc = "opening" /\ proc.event.side = "SELL"

\* C21 as stated: a call made through the retry logic is attempted at most
\* 3 times in total, is not retried after a non-retryable error, and ends
\* by propagating the error of its last attempt.
C21_AtMostThreeAttempts ==
  /\ req.attempts <= 3
  /\ req.pc = "waiting" =>
       IF req.call \in ClobCalls THEN ClobRetryable(req.lastError)
       ELSE isRetryableError(req.lastError)
  /\ req.pc = "thrown" => req.thrown = req.lastError

C24_NoTrailingExitWhenDisabled ==
  config.stop_loss_enabled = FALSE => ev.em # "trailing"

C26_StaleOrderEscalates ==
  [][\A t \in Tokens :
       (/\ ev'.token = t
        /\ t \in DOMAIN trackedPositions
        /\ ~IsResolvedPrice(positions[t].currentPrice)
        /\ trackedPositions[t].currentOrderId # Null
        /\ positions[t].currentPrice * 100 < trackedPositions[t].currentOrderPrice * 98
        /\ now - trackedPositions[t].lastUpdateTime >= RateLimitWindow)
         => \/ ev'.em # "none"
            \/ /\ t \in DOMAIN trackedPositions'
               /\ trackedPositions'[t].updateAttempts > trackedPositions[t].updateAttempts
               /\ trackedPositions'[t].updateAttempts < MAX_UPDATE_ATTEMPTS + 1
            \/ /\ t \notin DOMAIN trackedPositions'
               /\ trackedPositions[t].updateAttempts < MAX_UPDATE_ATTEMPTS]_vars

C28_WitnessLimit ==
  /\ ev.em = "none" /\ ev.closed = 1 /\ ev.sent = <<"GTC">> /\ ~StillTracked

C30_RejectionEscalates ==
  \A t \in Tokens :
    (/\ t \in DOMAIN trackedPositions
     /\ trackedPositions[t].currentOrderId = Null
     /\ trackedPositions[t].updateAttempts >= 1
     /\ ~trackedPositions[t].emergency)
      ~> (\/ t \notin DOMAIN trackedPositions
          \/ trackedPositions[t].currentOrderId # Null
          \/ trackedPositions[t].emergency)

C32_Original ==
  [][\A t \in Tokens :
       (/\ ev'.token = t /\ ev'.em = "none"
        /\ t \in DOMAIN trackedPositions /\ t \in DOMAIN trackedPositions')
         => LET peak == /\ positions[t].currentPrice > trackedPositions[t].highestPrice
                        /\ positions[t].currentPrice < ResolvedHigh
                failed == ev'.limit > 0 /\ trackedPositions'[t].currentOrderId = Null
            IN trackedPositions'[t].updateAttempts
                 = (IF peak THEN 0 ELSE trackedPositions[t].updateAttempts)
                   + (IF failed THEN 1 ELSE 0)]_vars

\* C32 corrected: updateAttempts is reset to 0 when a new high below the
\* resolved price 0.99 is observed;
\* it increases by 1 each time the engine sets out to reposition an order
\* that sits above the market, before the outcome is known and whether or
\* not the new order is placed; and it increases by 1 more each time a
\* placement (the initial one included) is rejected for a non-terminal
\* reason.  A successful placement does not reset it, and no other step
\* changes it.
C32_AttemptsCounted ==
  [][\A t \in Tokens :
       /\ (ev'.token = t /\ t \in DOMAIN trackedPositions
           /\ t \in DOMAIN trackedPositions') =>
            LET peak == /\ positions[t].currentPrice > trackedPositions[t].highestPrice
                        /\ positions[t].currentPrice < ResolvedHigh
                old == trackedPositions[t].updateAttempts
                new == trackedPositions'[t].updateAttempts
                attempted == ev'.limit > 0
                rejected == attempted /\ trackedPositions'[t].currentOrderId = Null
            IN /\ ev'.em = "none" =>
                    new = (IF peak THEN 0 ELSE old + (IF attempted THEN 1 ELSE 0))
                          + (IF rejected THEN 1 ELSE 0)
               /\ ev'.em = "trailing" => new = old
               /\ ev'.em = "maxAttempts" => new = old + 1 /\ new >= MAX_UPDATE_ATTEMPTS
               /\ ev'.em = "belowEntry" => new = (IF peak THEN 0 ELSE old + 1)
       /\ (ev'.token = t /\ ev'.start /\ t \in DOMAIN trackedPositions') =>
            trackedPositions'[t].updateAttempts
              = (IF trackedPositions'[t].currentOrderId = Null THEN 1 ELSE 0)
       /\ (ev'.token # t /\ ~ev'.loaded /\ t \in DOMAIN trackedPositions
           /\ t \in DOMAIN trackedPositions') =>
            trackedPositions'[t].updateAttempts = trackedPositions[t].updateAttempts]_vars

\* C32 witness: an order above the market has been repositioned, the new
\* order was placed, and the attempt has been counted.
C32_Witness ==
  /\ Visited /\ StillTracked /\ ev.em = "none"
  /\ ev.limit > 0 /\ ~ev.start
  /\ VisitedEntry.highestPrice > VisitedPos.currentPrice
  /\ VisitedEntry.currentOrderId = OrderId
  /\ VisitedEntry.updateAttempts = 1

\* The number of closures the tracker has detected (one callback each).
RECURSIVE Total(_, _)
Total(counts, S) ==
  IF S = {} THEN 0
  ELSE LET k == CHOOSE x \in S : TRUE IN counts[k] + Total(counts, S \ {k})

\* C33: a step changes winCount or lossCount only when an update detects
\* closures; for the closures it detects, winCount grows by the number whose
\* PnL is above +0.01 and lossCount by the number whose PnL is below -0.01;
\* so winCount + lossCount is never above the number of closures detected.
C33_WinLossCounted ==
  /\ [][\E c \in Callers :
          LET prev == calls[c].previousSnapshot
              closed == {t \in Tokens : callbacks'[t] = callbacks[t] + 1}
              pnl(t) == prev.positions[t].unrealizedPnL
          IN /\ \A t \in Tokens \ closed : callbacks'[t] = callbacks[t]
             /\ closed # {} => calls[c].pc = "resolved" /\ calls'[c].pc = "idle"
             /\ closed \subseteq DOMAIN prev.positions
             /\ winCount' = winCount
                  + Cardinality({t \in closed : pnl(t) > WinThreshold})
             /\ lossCount' = lossCount
                  + Cardinality({t \in closed : pnl(t) < 0 - WinThreshold})]_vars
  /\ [](winCount + lossCount <= Total(callbacks, Tokens))

\* C33 witness: a closure has been detected that counts as neither a win nor
\* a loss, besides one that counts.
C33_Witness ==
  /\ winCount + lossCount >= 1
  /\ winCount + lossCount < Total(callbacks, Tokens)

\* C34: when the balance or the position request of a tracker update fails,
\* the update leaves currentSnapshot, the realized PnL and the win and loss
\* counters as they were and invokes no closure callback, so that the next
\* update compares against the retained snapshot.
C34_FailedFetchRetains ==
  [][\A c \in Callers :
        /\ calls[c].pc \in {"awaiting", "defaulted"}
        /\ calls'[c].pc = "idle"
        => /\ currentSnapshot' = currentSnapshot
           /\ realizedPnL' = realizedPnL
           /\ winCount' = winCount /\ lossCount' = lossCount
           /\ callbacks' = callbacks]_vars

\* C35: stream() never yields the same trade twice, and never yields a
\* trade that was already among a tracked wallet's trades when stream() was
\* called.
C35_NoRepeatNoStale ==
  /\ \A i, j \in DOMAIN yielded : i # j => yielded[i] # yielded[j]
  /\ \A i \in DOMAIN yielded : yielded[i] \notin atStart

\* C40: after any sequence of openPosition calls every recorded position's
\* totalStake is the sum of the stakes of its parts, and no position without
\* parts is kept.
C40_StakeIsSumOfParts ==
  \A t \in DOMAIN executorPositions :
    /\ executorPositions[t].totalStake = SumStakes(executorPositions[t].parts)
    /\ executorPositions[t].parts # << >>

\* C39: in every state a tracked entry without an order id has an order
\* price of 0, and a tracked entry with an order id has an order price
\* above 0.
C39_OrderIdIffPrice ==
  \A t \in DOMAIN trackedPositions :
    (trackedPositions[t].currentOrderId = Null) <=> (trackedPositions[t].currentOrderPrice = 0)

\* C38: when loadState fails (the file does not parse or the position fetch
\* throws) the entries of instruments still held are not lost: an entry that
\* is in the state file, of an instrument still held, that the failed load
\* left out of the table, stays in the file through every later save.
C38_FailedLoadKeepsFile ==
  [][\A t \in Tokens :
        /\ fileExists /\ t \in DOMAIN persisted
        /\ t \in RealTokenIds(live)
        /\ t \notin DOMAIN trackedPositions
        => t \in DOMAIN persisted']_vars

\* C37: an entry that loadState has just restored, with its order id
\* cleared, eventually gets a limit order placed, goes through an emergency
\* exit or leaves the table, unless the instrument stops being held.
C37_RestoredEntryReordered ==
  \A t \in Tokens :
    (/\ ev.loaded
     /\ t \in DOMAIN trackedPositions
     /\ trackedPositions[t].currentOrderId = Null
     /\ ~trackedPositions[t].emergency)
      ~> (\/ t \notin DOMAIN trackedPositions
          \/ trackedPositions[t].currentOrderId # Null
          \/ trackedPositions[t].emergency
          \/ t \notin RealTokenIds(live))

\* C36: at any time at most one sell order that the engine placed for an
\* instrument is open at the exchange.
C36_AtMostOneOpenOrder == \A t \in Tokens : openOrders[t] <= 1
====
